---- MODULE Spec2Model ----
(***************************************************************************)
(* Model of the Linux text system of gpui                                  *)
(* (crates/gpui/src/platform/linux/text_system.rs): the font store, the    *)
(* family cache, family resolution (font_id / load_family), shaping        *)
(* (layout_line) and rasterization (raster_bounds / rasterize_glyph).      *)
(*                                                                         *)
(* font-kit (font sources, matching, rasterization) and harfbuzz (shaping) *)
(* are external libraries; they are modelled by what the calls made in     *)
(* text_system.rs get back from them.                                      *)
(***************************************************************************)
EXTENDS Integers, Sequences, FiniteSets, TLC

VARIABLES
    memory_source,            \* MemSource: the embedded fonts added so far, in order
    loaded_fonts_store,       \* HashMap<FontId, FontKitFont>: a function FontId -> face
    font_ids_by_family_cache, \* HashMap<SharedString, SmallVec<FontId>>
    result,                   \* the last call made on the text system and what it returned
    watched,                  \* history: one successful font_id call, kept for comparison
    lock,                     \* the RwLock of LinuxTextSystem: its writer and its readers
    calls,                    \* the call each thread is making on the text system, and where it is
    history,                  \* history: every (Face Id, face) inserted, every id returned
    xcb_connection,           \* the X11 events the server sent that are not polled yet
    events,                   \* process_x11_events: the batch to dispatch
    windows_to_refresh,       \* process_x11_events: the windows with an Expose in the batch
    last_key_release,         \* process_x11_events: the KeyRelease held back
    last_key_press,           \* process_x11_events: the last KeyPress pushed in the batch
    x11_pc,                   \* where process_x11_events is
    polled,                   \* history: every event poll_for_event returned, in order
    dispatched,               \* history: every event handed to the handlers, in order, with
                              \* how many events were polled by then
    client,                   \* X11ClientState: the fields of the state of the X11 client
    cell,                     \* the cells and pointers around the client states: the borrows
                              \* of the RefCells, whether the clients are alive, the event loop
    trace                     \* history: what the windows and the application were called with

text_vars == <<memory_source, loaded_fonts_store, font_ids_by_family_cache, result, watched>>
thread_vars == <<lock, calls, history>>
x11_vars == <<xcb_connection, events, windows_to_refresh, last_key_release, last_key_press,
              x11_pc, polled, dispatched>>

client_vars == <<client, cell, trace>>

vars == <<text_vars, thread_vars, x11_vars, client_vars>>

----------------------------------------------------------------------------
(* Bounds of the model *)

\* the store is not allowed to grow beyond this many faces
MaxFonts == 5
\* add_fonts is called with at most this many byte buffers
MaxAdd == 2

----------------------------------------------------------------------------
(* The fonts of the machine: what the font sources can hand out *)

None == "None"

\* names of faces; "Malformed" is a byte buffer that is no font container
SystemFaces == <<"SansRegular", "SansBold", "SansItalic", "Emoji", "MixedGood", "MixedCorrupt">>
EmbeddedFaces == {"TestFont", "EmbSans"}
\* the faces of an embedded sans-serif family: regular, bold, a condensed italic, and
\* a symbol face with no 'm' and no postscript name
FamilyFaces == {"EmbSans", "EmbSansBold", "EmbNarrowItalic", "EmbSymbols"}
Malformed == "Malformed"

\* what font-kit reports for a face: family name, postscript name, properties,
\* whether the cmap has 'm', whether the file loads.
FaceInfo(f) ==
    CASE f = "SansRegular" ->
            [family |-> "sans-serif", postscript_name |-> "DejaVuSans", has_m |-> TRUE,
             style |-> "Normal", weight |-> 400, stretch |-> 100, loadable |-> TRUE]
      [] f = "SansBold" ->
            [family |-> "sans-serif", postscript_name |-> "DejaVuSans-Bold", has_m |-> TRUE,
             style |-> "Normal", weight |-> 700, stretch |-> 100, loadable |-> TRUE]
      [] f = "SansItalic" ->
            [family |-> "sans-serif", postscript_name |-> "DejaVuSans-Oblique", has_m |-> TRUE,
             style |-> "Italic", weight |-> 400, stretch |-> 100, loadable |-> TRUE]
      [] f = "Emoji" ->
            [family |-> "Noto Color Emoji", postscript_name |-> "NotoColorEmoji", has_m |-> FALSE,
             style |-> "Normal", weight |-> 400, stretch |-> 100, loadable |-> TRUE]
      [] f = "MixedGood" ->
            [family |-> "Mixed", postscript_name |-> None, has_m |-> TRUE,
             style |-> "Normal", weight |-> 400, stretch |-> 100, loadable |-> TRUE]
      [] f = "MixedCorrupt" ->
            [family |-> "Mixed", postscript_name |-> "Mixed-Bold", has_m |-> TRUE,
             style |-> "Normal", weight |-> 700, stretch |-> 100, loadable |-> FALSE]
      [] f = "TestFont" ->
            [family |-> "TestFont", postscript_name |-> "TestFont", has_m |-> FALSE,
             style |-> "Normal", weight |-> 400, stretch |-> 100, loadable |-> TRUE]
      [] f = "EmbSans" ->
            [family |-> "sans-serif", postscript_name |-> "ZedSans", has_m |-> TRUE,
             style |-> "Normal", weight |-> 400, stretch |-> 100, loadable |-> TRUE]
      [] f = "EmbSansBold" ->
            [family |-> "sans-serif", postscript_name |-> "ZedSans-Bold", has_m |-> TRUE,
             style |-> "Normal", weight |-> 700, stretch |-> 100, loadable |-> TRUE]
      [] f = "EmbNarrowItalic" ->
            [family |-> "sans-serif", postscript_name |-> "ZedSans-NarrowItalic", has_m |-> TRUE,
             style |-> "Italic", weight |-> 400, stretch |-> 75, loadable |-> TRUE]
      [] f = "EmbSymbols" ->
            [family |-> "sans-serif", postscript_name |-> None, has_m |-> FALSE,
             style |-> "Normal", weight |-> 400, stretch |-> 100, loadable |-> TRUE]

\* family names a caller asks for
\* the requests a caller makes: <<family, style, weight>>
Requests ==
    {<<".SystemUIFont", "Normal", 400>>, <<"sans-serif", "Normal", 700>>,
     <<"sans-serif", "Normal", 550>>, <<"sans-serif", "Italic", 700>>,
     <<"TestFont", "Normal", 400>>, <<"Noto Color Emoji", "Normal", 400>>,
     <<"Mixed", "Normal", 400>>}

----------------------------------------------------------------------------
(* Helpers on sequences and maps *)

Range(s) == {s[i] : i \in 1..Len(s)}

RECURSIVE SelectSeqBy(_, _)
\* the subsequence of s of the faces whose family is name
SelectSeqBy(s, name) ==
    IF s = <<>> THEN <<>>
    ELSE IF FaceInfo(Head(s)).family = name
         THEN <<Head(s)>> \o SelectSeqBy(Tail(s), name)
         ELSE SelectSeqBy(Tail(s), name)

MapPut(m, k, v) == [x \in DOMAIN m \cup {k} |-> IF x = k THEN v ELSE m[x]]

EmptyMap == [x \in {} |-> 0]

----------------------------------------------------------------------------
(* add_fonts *)

\* MemSource::add_fonts parses each handle in turn and stops at the first that
\* is no font: the outcome and the source after the call.
RECURSIVE MemAddFonts(_, _)
MemAddFonts(mem, fonts) ==
    IF fonts = <<>> THEN [ok |-> TRUE, mem |-> mem]
    ELSE IF Head(fonts) = Malformed THEN [ok |-> FALSE, mem |-> mem]
    ELSE MemAddFonts(Append(mem, Head(fonts)), Tail(fonts))

AddInputs ==
    {s \in UNION {[1..n -> EmbeddedFaces \cup {Malformed}] : n \in 1..MaxAdd} :
        /\ \A i, j \in 1..Len(s) : s[i] = s[j] /\ s[i] # Malformed => i = j}

\* add_fonts that loads the first font it is given and gives it a Face Id
add_fonts_eager(fonts) ==
    /\ \A i \in 1..Len(fonts) : fonts[i] \notin Range(memory_source)
    /\ LET r == MemAddFonts(memory_source, fonts) IN
        /\ memory_source' = r.mem
        /\ result' = [op |-> "add_fonts", outcome |-> IF r.ok THEN "Ok" ELSE "LoadError"]
        /\ loaded_fonts_store' =
              IF r.mem = memory_source THEN loaded_fonts_store
              ELSE MapPut(loaded_fonts_store, Cardinality(DOMAIN loaded_fonts_store), fonts[1])
    /\ UNCHANGED <<font_ids_by_family_cache, watched, thread_vars, x11_vars, client_vars>>

\* lines 161-173. The model adds a font buffer to the source once: the guard keeps
\* the faces of the memory source distinct.
add_fonts(fonts) ==
    /\ \A i \in 1..Len(fonts) : fonts[i] \notin Range(memory_source)
    /\ LET r == MemAddFonts(memory_source, fonts) IN
        /\ memory_source' = r.mem
        /\ result' = [op |-> "add_fonts", outcome |-> IF r.ok THEN "Ok" ELSE "LoadError"]
    /\ UNCHANGED <<loaded_fonts_store, font_ids_by_family_cache, watched, thread_vars, x11_vars, client_vars>>

----------------------------------------------------------------------------
(* load_family *)

\* line 183: the system UI sentinel is the generic sans-serif family
NormalizeName(name) == IF name = ".SystemUIFont" THEN "sans-serif" ELSE name

\* SelectFamily that asks the system source first
SelectFamily_system_first(mem, name) ==
    LET in_sys == SelectSeqBy(SystemFaces, name) IN
    IF in_sys # <<>> THEN [found |-> TRUE, source |-> "system", fonts |-> in_sys]
    ELSE LET in_mem == SelectSeqBy(mem, name) IN
         IF in_mem # <<>> THEN [found |-> TRUE, source |-> "memory", fonts |-> in_mem]
         ELSE [found |-> FALSE, source |-> None, fonts |-> <<>>]

\* lines 190-193: the memory source first, the system source if it has no such family
SelectFamily(mem, name) ==
    LET in_mem == SelectSeqBy(mem, name) IN
    IF in_mem # <<>> THEN [found |-> TRUE, source |-> "memory", fonts |-> in_mem]
    ELSE LET in_sys == SelectSeqBy(SystemFaces, name) IN
         IF in_sys # <<>> THEN [found |-> TRUE, source |-> "system", fonts |-> in_sys]
         ELSE [found |-> FALSE, source |-> None, fonts |-> <<>>]

\* lines 198-203: "Remove bad fonts"
allowed_bad_font(f) ==
    /\ FaceInfo(f).postscript_name # None
    /\ FaceInfo(f).postscript_name # "NotoColorEmoji"

is_rejected(f) == ~FaceInfo(f).has_m /\ ~allowed_bad_font(f)

\* NextFontId with an off-by-one: ids start at 1
NextFontId_from_one(store) == Cardinality(DOMAIN store) + 1

\* line 214: let font_id = FontId(self.loaded_fonts_store.len())
NextFontId(store) == Cardinality(DOMAIN store)

\* lines 215-216: self.loaded_fonts_store.insert(font_id, ...)
StoreInsert(store, id, f) == MapPut(store, id, f)

\* LoadFaces that stores a face before it looks at it: a rejected face is in the
\* store, though in no list of candidates
RECURSIVE LoadFaces_keeps_rejected(_, _, _)
LoadFaces_keeps_rejected(fonts, store, ids) ==
    IF fonts = <<>> THEN [ok |-> TRUE, store |-> store, ids |-> ids]
    ELSE LET f == Head(fonts) IN
         IF ~FaceInfo(f).loadable THEN [ok |-> FALSE, store |-> store, ids |-> ids]
         ELSE LET id == NextFontId(store) IN
              LoadFaces_keeps_rejected(Tail(fonts), StoreInsert(store, id, f),
                                       IF is_rejected(f) THEN ids ELSE Append(ids, id))

\* lines 194-218: the loop over family.fonts(); a face that does not load ends the
\* call with an error, keeping what the loop inserted before it
RECURSIVE LoadFaces(_, _, _)
LoadFaces(fonts, store, ids) ==
    IF fonts = <<>> THEN [ok |-> TRUE, store |-> store, ids |-> ids]
    ELSE LET f == Head(fonts) IN
         IF ~FaceInfo(f).loadable THEN [ok |-> FALSE, store |-> store, ids |-> ids]
         ELSE IF is_rejected(f) THEN LoadFaces(Tail(fonts), store, ids)
         ELSE LET id == NextFontId(store) IN
              LoadFaces(Tail(fonts), StoreInsert(store, id, f), Append(ids, id))

\* lines 176-221
load_family(mem, store, name) ==
    LET family == SelectFamily(mem, NormalizeName(name)) IN
    IF ~family.found
    THEN [ok |-> FALSE, enumerated |-> FALSE, store |-> store, ids |-> <<>>]
    ELSE LET r == LoadFaces(family.fonts, store, <<>>) IN
         [ok |-> r.ok, enumerated |-> TRUE, store |-> r.store, ids |-> r.ids]

----------------------------------------------------------------------------
(* font_id *)

SetMax(S) == CHOOSE x \in S : \A y \in S : y <= x
SetMin(S) == CHOOSE x \in S : \A y \in S : x <= y

\* lines 470-480: the stretch of the query is always the default (normal)
font_into_properties(style, weight) ==
    [style |-> style, weight |-> weight, stretch |-> 100]

\* font_kit::properties of a loaded face (line 91)
Properties(f) ==
    [style |-> FaceInfo(f).style, weight |-> FaceInfo(f).weight, stretch |-> FaceInfo(f).stretch]

\* font_kit::matching::find_best_match, step 4a: the stretch to keep
MatchingStretch(props, set, query) ==
    LET have == {props[i].stretch : i \in set} IN
    IF query.stretch \in have THEN query.stretch
    ELSE LET narrower == {s \in have : s < query.stretch} IN
         IF narrower # {} THEN SetMax(narrower) ELSE SetMin(have)

\* MatchingStyle that keeps the upright faces whatever the request
MatchingStyle_normal_first(props, set, query) ==
    LET have == {props[i].style : i \in set} IN
    IF "Normal" \in have THEN "Normal"
    ELSE IF "Oblique" \in have THEN "Oblique"
    ELSE "Italic"

\* step 4b: the style to keep, by the order of preference of the requested style
MatchingStyle(props, set, query) ==
    LET have == {props[i].style : i \in set}
        preference == IF query.style = "Italic" THEN <<"Italic", "Oblique", "Normal">>
                      ELSE IF query.style = "Oblique" THEN <<"Oblique", "Italic", "Normal">>
                      ELSE <<"Normal", "Oblique", "Italic">>
    IN  IF preference[1] \in have THEN preference[1]
        ELSE IF preference[2] \in have THEN preference[2]
        ELSE preference[3]

\* MatchingWeight that looks at the thinner faces first whatever the request
MatchingWeight_thinner_first(props, set, query) ==
    LET have == {props[i].weight : i \in set}
        thinner == {x \in have : x <= query.weight}
    IN  IF thinner # {} THEN SetMax(thinner) ELSE SetMin(have)

\* step 4c: the weight to keep
MatchingWeight(props, set, query) ==
    LET have == {props[i].weight : i \in set}
        w == query.weight
        thinner == {x \in have : x <= w}
        fatter == {x \in have : x >= w}
    IN  IF w \in have THEN w
        ELSE IF w >= 400 /\ w < 450 /\ 500 \in have THEN 500
        ELSE IF w >= 450 /\ w <= 500 /\ 400 \in have THEN 400
        ELSE IF w <= 500
             THEN (IF thinner # {} THEN SetMax(thinner) ELSE SetMin(have))
             ELSE (IF fatter # {} THEN SetMin(fatter) ELSE SetMax(have))

\* font_kit::matching::find_best_match (called at lines 95-97): the index, from 1,
\* of the first candidate left after the three steps; 0 when there is none
find_best_match(props, query) ==
    IF Len(props) = 0 THEN 0
    ELSE LET set0 == 1..Len(props)
             set1 == {i \in set0 : props[i].stretch = MatchingStretch(props, set0, query)}
             set2 == {i \in set1 : props[i].style = MatchingStyle(props, set1, query)}
             set3 == {i \in set2 : props[i].weight = MatchingWeight(props, set2, query)}
         IN  IF set3 = {} THEN 0 ELSE SetMin(set3)

\* CacheHas that never finds the entry: every call enumerates the family
CacheHas_never(cache, family) == FALSE

\* line 77: state.font_ids_by_family_cache.get(&font.family)
CacheHas(cache, family) == family \in DOMAIN cache

\* CacheInsert that keeps no entry for a family with no candidate
CacheInsert_nonempty(cache, family, ids) ==
    IF ids = <<>> THEN cache ELSE MapPut(cache, family, ids)

\* lines 81-83: state.font_ids_by_family_cache.insert(font.family.clone(), font_ids)
CacheInsert(cache, family, ids) == MapPut(cache, family, ids)

\* lines 74-102: the store and the cache after the call, and what the call returns.
\* The features of the request are only printed (line 181) and decide nothing.
FontIdCall(mem, store, cache, family, style, weight) ==
    LET hit == CacheHas(cache, family)
        lf == IF hit THEN [ok |-> TRUE, enumerated |-> FALSE, store |-> store, ids |-> cache[family]]
              ELSE load_family(mem, store, family)
        cache2 == IF hit \/ ~lf.ok THEN cache ELSE CacheInsert(cache, family, lf.ids)
        out0 == [op |-> "font_id", family |-> family, style |-> style, weight |-> weight,
                 cache_hit |-> hit, enumerated |-> lf.enumerated, outcome |-> "Ok", id |-> -1]
    IN  IF ~lf.ok
        THEN [store |-> lf.store, cache |-> cache2,
              out |-> [out0 EXCEPT !.outcome = IF lf.enumerated THEN "FontLoadError"
                                                ELSE "FamilyNotFound"]]
        ELSE IF family \notin DOMAIN cache2
        THEN [store |-> lf.store, cache |-> cache2, out |-> [out0 EXCEPT !.outcome = "panic"]]
        ELSE LET candidates == cache2[family] IN
             IF \E i \in 1..Len(candidates) : candidates[i] \notin DOMAIN lf.store
             THEN [store |-> lf.store, cache |-> cache2, out |-> [out0 EXCEPT !.outcome = "panic"]]
             ELSE LET props == [i \in 1..Len(candidates) |-> Properties(lf.store[candidates[i]])]
                      ix == find_best_match(props, font_into_properties(style, weight))
                  IN  IF ix = 0
                      THEN [store |-> lf.store, cache |-> cache2,
                            out |-> [out0 EXCEPT !.outcome = "NoMatch"]]
                      ELSE [store |-> lf.store, cache |-> cache2,
                            out |-> [out0 EXCEPT !.id = candidates[ix]]]

NotWatching == [family |-> None, style |-> None, weight |-> 0, id |-> -1]

font_id(family, style, weight, watch) ==
    LET r == FontIdCall(memory_source, loaded_fonts_store, font_ids_by_family_cache,
                        family, style, weight) IN
    /\ Cardinality(DOMAIN r.store) <= MaxFonts
    /\ loaded_fonts_store' = r.store
    /\ font_ids_by_family_cache' = r.cache
    /\ result' = r.out
    /\ watched' = IF watch /\ watched = NotWatching /\ r.out.outcome = "Ok"
                  THEN [family |-> family, style |-> style, weight |-> weight, id |-> r.out.id]
                  ELSE watched
    /\ UNCHANGED <<memory_source, thread_vars, x11_vars, client_vars>>

----------------------------------------------------------------------------
(* The rasterization engine (font-kit), as raster_bounds and rasterize_glyph use it *)

\* font.metrics() of font-kit, in design units
FaceMetrics(f) ==
    IF f = "SansBold" THEN [units_per_em |-> 1024, ascent |-> 896, descent |-> -256]
    ELSE IF f = "TestFont" THEN [units_per_em |-> 1024, ascent |-> 512, descent |-> -384]
    ELSE [units_per_em |-> 1024, ascent |-> 768, descent |-> -256]

\* the glyph ids of a face: 0 is notdef, 1 to 3 are 'A', 'B' and e-acute, 4 is 'x',
\* 5 is the space (no ink)
GlyphIds(f) == 0..5

HasGlyph(f, g) == g \in GlyphIds(f)

\* Font::typographic_bounds: the ink box in design units
TypographicBounds(f, g) ==
    IF g = 5 THEN [x |-> 0, y |-> 0, w |-> 0, h |-> 0]
    ELSE IF g = 1 THEN [x |-> 0, y |-> 0, w |-> 96, h |-> 128]
    ELSE [x |-> 32, y |-> -64, w |-> 64, h |-> 64]

FloorDiv(a, b) == a \div b
CeilDiv(a, b) == -((-a) \div b)

\* Font::raster_bounds of font-kit: the typographic box scaled to the size, flipped to
\* a top-left origin, transformed and rounded out. The hinting and rasterization
\* options are taken and not used.
EngineRasterBounds(f, g, font_size, scale, hinting, aa) ==
    LET t == TypographicBounds(f, g)
        k == font_size * scale
        upem == FaceMetrics(f).units_per_em
        left == FloorDiv(t.x * k, upem)
        top == FloorDiv((-t.y - t.h) * k, upem)
        right == CeilDiv((t.x + t.w) * k, upem)
        bottom == CeilDiv(-t.y * k, upem)
    IN  [x |-> left, y |-> top, w |-> right - left, h |-> bottom - top]

\* Canvas::new(size, format): stride = width * bytes per pixel, pixels = stride * height
BytesPerPixel(format) == IF format = "A8" THEN 1 ELSE IF format = "Rgb24" THEN 3 ELSE 4

\* Font::rasterize_glyph: what the engine leaves in byte i (from 1) of the canvas
EnginePixel(g, i) == 1 + ((i + g) % 5)

EnginePaint(g, n) == [i \in 1..n |-> EnginePixel(g, i)]

----------------------------------------------------------------------------
(* raster_bounds and rasterize_glyph *)

NoBounds == [x |-> 0, y |-> 0, w |-> 0, h |-> 0]
NoArgs == <<>>

\* lines 244-250: what raster_bounds hands to the engine
RasterBoundsArgs(params) ==
    <<params.font_id, params.glyph_id, params.font_size, params.scale_factor,
      "None", "GrayscaleAa">>

\* lines 267-272 and 278-284: what rasterize_glyph hands to the engine for its bounds
hinting_options == "Full"
rasterization_options(params) == IF params.is_emoji THEN "SubpixelAa" ELSE "GrayscaleAa"

RasterizeBoundsArgs(params) ==
    <<params.font_id, params.glyph_id, params.font_size, params.scale_factor,
      hinting_options, rasterization_options(params)>>

\* lines 241-252
RasterBoundsCall(store, params) ==
    LET out0 == [op |-> "raster_bounds", params |-> params, outcome |-> "Ok",
                 bounds |-> NoBounds, bounds_args |-> NoArgs]
    IN  IF params.font_id \notin DOMAIN store THEN [out0 EXCEPT !.outcome = "panic"]
        ELSE LET f == store[params.font_id]
                 a == RasterBoundsArgs(params)
             IN  IF ~HasGlyph(f, params.glyph_id)
                 THEN [out0 EXCEPT !.outcome = "GlyphLoadingError", !.bounds_args = a]
                 ELSE [out0 EXCEPT !.bounds = EngineRasterBounds(f, a[2], a[3], a[4], a[5], a[6]),
                                   !.bounds_args = a]

\* is_empty_bounds that takes only a box of no width and no height for empty
is_empty_bounds_both(glyph_bounds) == glyph_bounds.w = 0 /\ glyph_bounds.h = 0

\* line 260
is_empty_bounds(glyph_bounds) == glyph_bounds.w = 0 \/ glyph_bounds.h = 0

\* line 287: Canvas::new(raster_bounds.size(), Format::A8)
CanvasFormat(params) == "A8"

\* lines 297-300: debug_assert_eq!(canvas.size, glyph_bounds.size), compiled in only
\* when the build has debug assertions
DebugAssertHolds(dbg, canvas_size, glyph_bounds) ==
    dbg => (canvas_size.w = glyph_bounds.w /\ canvas_size.h = glyph_bounds.h)

\* SwapChunks that forgets the conversion
SwapChunks_none(pixels) == pixels

\* lines 325-327: pixel.swap(0, 2) on every whole chunk of 4 bytes
SwapChunks(pixels) ==
    [i \in 1..Len(pixels) |->
        LET pos == (i - 1) % 4
            whole == ((i - 1) \div 4) * 4 + 4 <= Len(pixels)
        IN  IF whole /\ pos = 0 THEN pixels[i + 2]
            ELSE IF whole /\ pos = 2 THEN pixels[i - 2]
            ELSE pixels[i]]

\* lines 255-331. dbg: whether the build has debug assertions.
RasterizeCall(store, params, glyph_bounds, dbg) ==
    LET out0 == [op |-> "rasterize_glyph", params |-> params, glyph_bounds |-> glyph_bounds,
                 debug_assertions |-> dbg, outcome |-> "Ok", looked_up |-> FALSE,
                 bounds_args |-> NoArgs, canvas |-> FALSE, raster_bounds |-> NoBounds,
                 size |-> [w |-> 0, h |-> 0], pixels |-> <<>>]
    IN  IF is_empty_bounds(glyph_bounds) THEN [out0 EXCEPT !.outcome = "EmptyBounds"]
        ELSE IF params.font_id \notin DOMAIN store
        THEN [out0 EXCEPT !.outcome = "panic", !.looked_up = TRUE]
        ELSE LET f == store[params.font_id]
                 a == RasterizeBoundsArgs(params)
                 out1 == [out0 EXCEPT !.looked_up = TRUE, !.bounds_args = a]
             IN  IF ~HasGlyph(f, params.glyph_id)
                 THEN [out1 EXCEPT !.outcome = "GlyphLoadingError"]
                 ELSE LET rb == EngineRasterBounds(f, a[2], a[3], a[4], a[5], a[6])
                          n == rb.w * rb.h * BytesPerPixel(CanvasFormat(params))
                          painted == EnginePaint(params.glyph_id, n)
                          out2 == [out1 EXCEPT !.canvas = TRUE, !.raster_bounds = rb,
                                               !.size = [w |-> rb.w, h |-> rb.h]]
                      IN  IF ~DebugAssertHolds(dbg, rb, glyph_bounds)
                          THEN [out2 EXCEPT !.outcome = "panic"]
                          ELSE [out2 EXCEPT !.pixels = IF params.is_emoji
                                                       THEN SwapChunks(painted)
                                                       ELSE painted]

raster_bounds(params) ==
    /\ result' = RasterBoundsCall(loaded_fonts_store, params)
    /\ UNCHANGED <<memory_source, loaded_fonts_store, font_ids_by_family_cache, watched, thread_vars, x11_vars, client_vars>>

rasterize_glyph(params, glyph_bounds, dbg) ==
    /\ result' = RasterizeCall(loaded_fonts_store, params, glyph_bounds, dbg)
    /\ UNCHANGED <<memory_source, loaded_fonts_store, font_ids_by_family_cache, watched, thread_vars, x11_vars, client_vars>>

\* the bounds a caller hands to rasterize_glyph: those raster_bounds gave for the
\* same request, or others
TargetBounds(store, params) ==
    {RasterBoundsCall(store, params).bounds} \cup
    {[x |-> 0, y |-> 0, w |-> w, h |-> h] : w \in {0, 2}, h \in {0, 2}}

----------------------------------------------------------------------------
(* The shaping engine (harfbuzz) and the per-glyph advances, as layout_line uses them *)

\* A text is a sequence of UTF-8 bytes: "A", "B" and "x" are one-byte characters,
\* "e1" "e2" are the two bytes of one e-acute.
IsContinuation(b) == b = "e2"

\* str::is_char_boundary
IsCharBoundary(text, i) ==
    \/ i = 0
    \/ i = Len(text)
    \/ (i < Len(text) /\ ~IsContinuation(text[i + 1]))

\* the cmap of a face: the glyph of the character starting with byte b. The Sans
\* faces have no 'x'; TestFont has no 'B'.
GlyphForChar(f, b) ==
    IF b = "A" THEN 1
    ELSE IF b = "B" THEN (IF f = "TestFont" THEN 0 ELSE 2)
    ELSE IF b = "e1" THEN 3
    ELSE IF b = "x" THEN (IF f \in {"SansRegular", "SansBold", "SansItalic"} THEN 0 ELSE 4)
    ELSE 0

\* the horizontal advance harfbuzz reports for a glyph (pos.x_advance)
HbAdvance(f, g) == IF g = 0 THEN 600 ELSE 520

\* harfbuzz_rs::shape on a slice: one glyph per character, its cluster the byte
\* offset of the character in the slice
RECURSIVE ShapeFrom(_, _, _)
ShapeFrom(f, slice, i) ==
    IF i > Len(slice) THEN <<>>
    ELSE IF IsContinuation(slice[i]) THEN ShapeFrom(f, slice, i + 1)
    ELSE LET g == GlyphForChar(f, slice[i]) IN
         <<[codepoint |-> g, cluster |-> i - 1, x_advance |-> HbAdvance(f, g)]>>
             \o ShapeFrom(f, slice, i + 1)

shape(f, slice) == ShapeFrom(f, slice, 1)

\* Font::advance of font-kit, in design units; -1 when the face cannot load the
\* glyph (glyph 4 of TestFont)
FontAdvance(f, g) ==
    IF f = "TestFont" /\ g = 4 THEN -1
    ELSE IF g = 2 THEN 576 ELSE 512

----------------------------------------------------------------------------
(* font_metrics, typographic_bounds, advance, glyph_for_char *)

\* lines 104-125: the metrics of the face, copied field by field
FontMetricsCall(store, id) ==
    LET out0 == [op |-> "font_metrics", font_id |-> id, outcome |-> "Ok",
                 units_per_em |-> 0, ascent |-> 0, descent |-> 0]
    IN  IF id \notin DOMAIN store THEN [out0 EXCEPT !.outcome = "panic"]
        ELSE LET m == FaceMetrics(store[id]) IN
             [out0 EXCEPT !.units_per_em = m.units_per_em, !.ascent = m.ascent,
                          !.descent = m.descent]

\* lines 127-132: font.0.typographic_bounds(glyph_id.0)?
TypographicBoundsCall(store, id, glyph_id) ==
    LET out0 == [op |-> "typographic_bounds", font_id |-> id, glyph_id |-> glyph_id,
                 outcome |-> "Ok", bounds |-> NoBounds]
    IN  IF id \notin DOMAIN store THEN [out0 EXCEPT !.outcome = "panic"]
        ELSE IF ~HasGlyph(store[id], glyph_id)
        THEN [out0 EXCEPT !.outcome = "GlyphLoadingError"]
        ELSE [out0 EXCEPT !.bounds = TypographicBounds(store[id], glyph_id)]

\* AdvanceCall that unwraps what the engine returns
AdvanceCall_unwrap(store, id, glyph_id) ==
    LET out0 == [op |-> "advance", font_id |-> id, glyph_id |-> glyph_id,
                 outcome |-> "Ok", advance |-> 0]
    IN  IF id \notin DOMAIN store THEN [out0 EXCEPT !.outcome = "panic"]
        ELSE IF ~HasGlyph(store[id], glyph_id) \/ FontAdvance(store[id], glyph_id) < 0
        THEN [out0 EXCEPT !.outcome = "panic"]
        ELSE [out0 EXCEPT !.advance = FontAdvance(store[id], glyph_id)]

\* lines 134-136 and 223-227: font.0.advance(glyph_id.0)?
AdvanceCall(store, id, glyph_id) ==
    LET out0 == [op |-> "advance", font_id |-> id, glyph_id |-> glyph_id,
                 outcome |-> "Ok", advance |-> 0]
    IN  IF id \notin DOMAIN store THEN [out0 EXCEPT !.outcome = "panic"]
        ELSE IF ~HasGlyph(store[id], glyph_id) \/ FontAdvance(store[id], glyph_id) < 0
        THEN [out0 EXCEPT !.outcome = "GlyphLoadingError"]
        ELSE [out0 EXCEPT !.advance = FontAdvance(store[id], glyph_id)]

\* GlyphForCharCall that answers None for a face it does not know
GlyphForCharCall_lenient(store, id, ch) ==
    LET out0 == [op |-> "glyph_for_char", font_id |-> id, ch |-> ch,
                 outcome |-> "None", glyph_id |-> 0]
    IN  IF id \notin DOMAIN store THEN out0
        ELSE LET g == GlyphForChar(store[id], ch) IN
             IF g = 0 THEN out0 ELSE [out0 EXCEPT !.outcome = "Some", !.glyph_id = g]

\* lines 138-140 and 229-232: an Option, Some(glyph) or None
GlyphForCharCall(store, id, ch) ==
    LET out0 == [op |-> "glyph_for_char", font_id |-> id, ch |-> ch,
                 outcome |-> "None", glyph_id |-> 0]
    IN  IF id \notin DOMAIN store THEN [out0 EXCEPT !.outcome = "panic"]
        ELSE LET g == GlyphForChar(store[id], ch) IN
             IF g = 0 THEN out0 ELSE [out0 EXCEPT !.outcome = "Some", !.glyph_id = g]

----------------------------------------------------------------------------
(* layout_line *)

\* Lengths are kept in 1/64 of a pixel, the unit of line 388, so that every value
\* of the model is an integer.
\* lines 360, 362 and 398: v * font_size / units_per_em
ScaleToSize(v, font_size, f) == (v * font_size * 64) \div FaceMetrics(f).units_per_em

\* line 388: pos.x_advance as f32 / 64.
NotdefAdvance(x_advance) == x_advance

Abs(v) == IF v < 0 THEN -v ELSE v

\* Max that forgets the runs before: the metrics of the last run win
Max_last(a, b) == b

\* f32::max of lines 360 and 362
Max(a, b) == IF a >= b THEN a ELSE b

\* is_notdef that takes no glyph for the missing glyph
is_notdef_never(info) == FALSE

\* line 387: info.codepoint == 0
is_notdef(info) == info.codepoint = 0

\* the pen at the start of a run, were it reset at every run
RunStartPen_reset(x_offset) == 0

\* line 351: x_offset is declared before the loop over the runs, and a run starts
\* where the run before it ended
RunStartPen(x_offset) == x_offset

\* LayoutLen that reports the bytes the runs consumed
LayoutLen_consumed(text, utf8_offset) == utf8_offset

\* line 420: len: text.len(), where text is the whole line (the slice of line 370
\* is a binding of the body of the loop)
LayoutLen(text, utf8_offset) == Len(text)

\* lines 386-406: the loop over the shaped glyphs of one run
RECURSIVE GlyphLoop(_, _, _, _, _)
GlyphLoop(f, infos, font_size, x_offset, glyphs) ==
    IF infos = <<>> THEN [panic |-> FALSE, x_offset |-> x_offset, glyphs |-> glyphs]
    ELSE LET info == Head(infos) IN
         IF is_notdef(info)
         THEN GlyphLoop(f, Tail(infos), font_size,
                        x_offset + NotdefAdvance(info.x_advance), glyphs)
         ELSE LET advance == FontAdvance(f, info.codepoint) IN
              IF advance < 0
              THEN [panic |-> TRUE, x_offset |-> x_offset, glyphs |-> glyphs]
              ELSE GlyphLoop(f, Tail(infos), font_size,
                             x_offset + ScaleToSize(advance, font_size, f),
                             Append(glyphs, [id |-> info.codepoint, x |-> x_offset, y |-> 0,
                                             index |-> info.cluster, is_emoji |-> FALSE]))

\* lines 370-371: &text[utf8_offset..(utf8_offset + run.len)] panics when the range
\* ends after the text or cuts a character
SliceOk(text, from, to) ==
    /\ to <= Len(text)
    /\ IsCharBoundary(text, from)
    /\ IsCharBoundary(text, to)

\* lines 356-412: the loop over the font runs. st is the state of the loop.
RECURSIVE RunLoop(_, _, _, _, _)
RunLoop(store, text, font_size, font_runs, st) ==
    IF font_runs = <<>> THEN st
    ELSE LET run == Head(font_runs) IN
         IF run.font_id \notin DOMAIN store THEN [st EXCEPT !.panic = TRUE]
         ELSE LET f == store[run.font_id]
                  m == FaceMetrics(f)
                  ascent == Max(st.ascent, ScaleToSize(m.ascent, font_size, f))
                  descent == Max(st.descent, ScaleToSize(Abs(m.descent), font_size, f))
                  from == st.utf8_offset
                  to == st.utf8_offset + run.len
              IN  IF ~SliceOk(text, from, to)
                  THEN [st EXCEPT !.panic = TRUE, !.ascent = ascent, !.descent = descent]
                  ELSE LET slice == SubSeq(text, from + 1, to)
                           shape_info == shape(f, slice)
                           st1 == [st EXCEPT !.ascent = ascent, !.descent = descent,
                                             !.utf8_offset = to,
                                             !.slices = Append(@, <<from, to>>)]
                       IN  IF shape_info = <<>>
                           THEN RunLoop(store, text, font_size, Tail(font_runs), st1)
                           ELSE LET g == GlyphLoop(f, shape_info, font_size,
                                                   RunStartPen(st.x_offset), <<>>) IN
                                IF g.panic THEN [st1 EXCEPT !.panic = TRUE]
                                ELSE RunLoop(store, text, font_size, Tail(font_runs),
                                       [st1 EXCEPT !.x_offset = g.x_offset,
                                                   !.runs = Append(@, [font_id |-> run.font_id,
                                                                       glyphs |-> g.glyphs])])

\* lines 334-422
LayoutLineCall(store, text, font_size, font_runs) ==
    LET st0 == [panic |-> FALSE, utf8_offset |-> 0, x_offset |-> 0, ascent |-> 0,
                descent |-> 0, runs |-> <<>>, slices |-> <<>>]
        st == RunLoop(store, text, font_size, font_runs, st0)
    IN  [op |-> "layout_line", text |-> text, font_size |-> font_size, font_runs |-> font_runs,
         outcome |-> IF st.panic THEN "panic" ELSE "Ok", slices |-> st.slices,
         layout |-> IF st.panic
                    THEN [font_size |-> font_size, width |-> 0, ascent |-> 0, descent |-> 0,
                          runs |-> <<>>, len |-> 0]
                    ELSE [font_size |-> font_size, width |-> st.x_offset, ascent |-> st.ascent,
                          descent |-> st.descent, runs |-> st.runs,
                          len |-> LayoutLen(text, st.utf8_offset)]]

layout_line(text, font_size, font_runs) ==
    /\ result' = LayoutLineCall(loaded_fonts_store, text, font_size, font_runs)
    /\ UNCHANGED <<memory_source, loaded_fonts_store, font_ids_by_family_cache, watched, thread_vars, x11_vars, client_vars>>

font_metrics(id) ==
    /\ result' = FontMetricsCall(loaded_fonts_store, id)
    /\ UNCHANGED <<memory_source, loaded_fonts_store, font_ids_by_family_cache, watched, thread_vars, x11_vars, client_vars>>

typographic_bounds(id, glyph_id) ==
    /\ result' = TypographicBoundsCall(loaded_fonts_store, id, glyph_id)
    /\ UNCHANGED <<memory_source, loaded_fonts_store, font_ids_by_family_cache, watched, thread_vars, x11_vars, client_vars>>

advance(id, glyph_id) ==
    /\ result' = AdvanceCall(loaded_fonts_store, id, glyph_id)
    /\ UNCHANGED <<memory_source, loaded_fonts_store, font_ids_by_family_cache, watched, thread_vars, x11_vars, client_vars>>

glyph_for_char(id, ch) ==
    /\ result' = GlyphForCharCall(loaded_fonts_store, id, ch)
    /\ UNCHANGED <<memory_source, loaded_fonts_store, font_ids_by_family_cache, watched, thread_vars, x11_vars, client_vars>>

----------------------------------------------------------------------------
(* The calls on LinuxTextSystem made from several threads: each wrapper takes the
   RwLock at its head (self.0.write() or self.0.read()), runs the method of the
   state and drops the guard when it returns or unwinds *)

Threads == {1, 2}
NoThread == 0

WriteOps == {"add_fonts", "font_id", "raster_bounds", "rasterize_glyph", "layout_line"}
ReadOps == {"font_metrics", "typographic_bounds", "advance", "glyph_for_char"}
\* the calls that measure, shape or paint a glyph
PaintOps == {"raster_bounds", "rasterize_glyph", "layout_line"}

\* LockMode with shared access for every call
LockMode_shared(op) == "read"

\* lines 57-156: the guard each wrapper takes. add_fonts (58), font_id (75),
\* glyph_raster_bounds (143), rasterize_glyph (151) and layout_line (155) call
\* self.0.write(); font_metrics (105), typographic_bounds (128), advance (135) and
\* glyph_for_char (139) call self.0.read()
LockMode(op) == IF op \in WriteOps THEN "write" ELSE "read"

\* CanAcquire of a lock that excludes nobody
CanAcquire_always(l, mode) == TRUE

\* parking_lot::RwLock: a writer alone, or any number of readers
CanAcquire(l, mode) ==
    IF mode = "write" THEN l.writer = NoThread /\ l.readers = {}
    ELSE l.writer = NoThread

Acquired(l, t, mode) ==
    IF mode = "write" THEN [l EXCEPT !.writer = t]
    ELSE [l EXCEPT !.readers = @ \cup {t}]

Released(l, t) ==
    [writer |-> IF l.writer = t THEN NoThread ELSE l.writer, readers |-> l.readers \ {t}]

\* a slot of the store whose insertion has begun and is not complete
PartialHandle == "PartialHandle"

IdleCall ==
    [op |-> None, pc |-> "idle", family |-> None, style |-> None, weight |-> 0, id |-> -1,
     fonts |-> <<>>, ids |-> <<>>, outcome |-> None]

\* the calls a thread makes
ThreadCalls ==
    {[IdleCall EXCEPT !.op = "add_fonts", !.fonts = <<"TestFont">>]}
    \cup {[IdleCall EXCEPT !.op = "font_id", !.family = req[1], !.style = req[2], !.weight = req[3]] :
            req \in {<<"sans-serif", "Normal", 700>>, <<"TestFont", "Normal", 400>>,
                     <<"Noto Color Emoji", "Normal", 400>>}}
    \cup {[IdleCall EXCEPT !.op = op, !.id = id] : op \in ReadOps, id \in {0, 3}}
    \cup {[IdleCall EXCEPT !.op = op, !.id = 0] : op \in PaintOps}

\* a thread enters a wrapper
Call(t, c) ==
    /\ calls[t].pc = "idle"
    /\ calls' = [calls EXCEPT ![t] = [c EXCEPT !.pc = "acquire"]]
    /\ UNCHANGED <<text_vars, lock, history, x11_vars, client_vars>>

\* self.0.write() or self.0.read() returns the guard
Acquire(t) ==
    /\ calls[t].pc = "acquire"
    /\ CanAcquire(lock, LockMode(calls[t].op))
    /\ lock' = Acquired(lock, t, LockMode(calls[t].op))
    /\ calls' = [calls EXCEPT ![t].pc = IF calls[t].op = "font_id" THEN "lookup" ELSE "body"]
    /\ UNCHANGED <<text_vars, history, x11_vars, client_vars>>

\* lines 161-173 under the guard of line 58
AddFontsBody(t) ==
    /\ calls[t].pc = "body" /\ calls[t].op = "add_fonts"
    /\ \A i \in 1..Len(calls[t].fonts) : calls[t].fonts[i] \notin Range(memory_source)
    /\ LET r == MemAddFonts(memory_source, calls[t].fonts) IN
        /\ memory_source' = r.mem
        /\ calls' = [calls EXCEPT ![t].pc = "release",
                                  ![t].outcome = IF r.ok THEN "Ok" ELSE "LoadError"]
    /\ UNCHANGED <<loaded_fonts_store, font_ids_by_family_cache, result, watched, lock,
                   history, x11_vars, client_vars>>

\* lines 77-80 and 177-193: the cache, and on a miss the choice of the family
FontIdLookup(t) ==
    /\ calls[t].pc = "lookup"
    /\ LET c == calls[t]
           family == SelectFamily(memory_source, NormalizeName(c.family))
       IN  calls' = [calls EXCEPT ![t] =
                IF CacheHas(font_ids_by_family_cache, c.family) THEN [c EXCEPT !.pc = "match"]
                ELSE IF ~family.found
                     THEN [c EXCEPT !.pc = "release", !.outcome = "FamilyNotFound"]
                ELSE [c EXCEPT !.pc = "load", !.fonts = family.fonts, !.ids = <<>>]]
    /\ UNCHANGED <<text_vars, lock, history, x11_vars, client_vars>>

\* lines 194-214: the next face of the family is loaded and filtered, and the
\* length of the store is read for its id; line 218 when no face is left
FontIdLoad(t) ==
    /\ calls[t].pc = "load"
    /\ LET c == calls[t] IN
       calls' = [calls EXCEPT ![t] =
            IF c.fonts = <<>> THEN [c EXCEPT !.pc = "cache"]
            ELSE IF ~FaceInfo(Head(c.fonts)).loadable
                 THEN [c EXCEPT !.pc = "release", !.outcome = "FontLoadError"]
            ELSE IF is_rejected(Head(c.fonts)) THEN [c EXCEPT !.fonts = Tail(c.fonts)]
            ELSE [c EXCEPT !.pc = "insert", !.id = NextFontId(loaded_fonts_store)]]
    /\ UNCHANGED <<text_vars, lock, history, x11_vars, client_vars>>

\* lines 215-216: the insertion in the store begins: the slot of the id exists, the
\* handle is not written yet
FontIdInsertBegin(t) ==
    /\ calls[t].pc = "insert"
    /\ Cardinality(DOMAIN loaded_fonts_store) < MaxFonts
    /\ loaded_fonts_store' = StoreInsert(loaded_fonts_store, calls[t].id, PartialHandle)
    /\ calls' = [calls EXCEPT ![t].pc = "inserting"]
    /\ UNCHANGED <<memory_source, font_ids_by_family_cache, result, watched, lock, history,
                   x11_vars, client_vars>>

\* lines 215-217: the insertion is complete, and the id is pushed on font_ids
FontIdInsertEnd(t) ==
    /\ calls[t].pc = "inserting"
    /\ LET c == calls[t] IN
        /\ loaded_fonts_store' = StoreInsert(loaded_fonts_store, c.id, Head(c.fonts))
        /\ history' = [history EXCEPT !.assigned = @ \cup {<<c.id, Head(c.fonts)>>}]
        /\ calls' = [calls EXCEPT ![t] =
                        [c EXCEPT !.pc = "load", !.fonts = Tail(c.fonts), !.ids = Append(c.ids, c.id)]]
    /\ UNCHANGED <<memory_source, font_ids_by_family_cache, result, watched, lock, x11_vars, client_vars>>

\* lines 81-83
FontIdCacheInsert(t) ==
    /\ calls[t].pc = "cache"
    /\ font_ids_by_family_cache' =
          CacheInsert(font_ids_by_family_cache, calls[t].family, calls[t].ids)
    /\ calls' = [calls EXCEPT ![t].pc = "match"]
    /\ UNCHANGED <<memory_source, loaded_fonts_store, result, watched, lock, history, x11_vars, client_vars>>

\* a handle a call can read: the id is in the store and its insertion is complete
Complete(store, id) == id \in DOMAIN store /\ store[id] # PartialHandle

\* lines 84-101: the candidates of the family are read from the cache and the
\* store, and matched
FontIdMatch(t) ==
    /\ calls[t].pc = "match"
    /\ LET c == calls[t]
           candidates == IF c.family \in DOMAIN font_ids_by_family_cache
                         THEN font_ids_by_family_cache[c.family] ELSE <<>>
           readable == /\ c.family \in DOMAIN font_ids_by_family_cache
                       /\ \A i \in 1..Len(candidates) : Complete(loaded_fonts_store, candidates[i])
           props == [i \in 1..Len(candidates) |-> Properties(loaded_fonts_store[candidates[i]])]
           ix == find_best_match(props, font_into_properties(c.style, c.weight))
       IN  calls' = [calls EXCEPT ![t] =
                IF ~readable THEN [c EXCEPT !.pc = "release", !.outcome = "panic"]
                ELSE IF ix = 0 THEN [c EXCEPT !.pc = "release", !.outcome = "NoMatch"]
                ELSE [c EXCEPT !.pc = "release", !.outcome = "Ok", !.id = candidates[ix]]]
    /\ UNCHANGED <<text_vars, lock, history, x11_vars, client_vars>>

\* the methods that only look a face up (104-156, 223-252, 255-331, 334-422): the
\* lookup by id, then the work on the face
QueryBody(t) ==
    /\ calls[t].pc = "body" /\ calls[t].op \in ReadOps \cup PaintOps
    /\ calls' = [calls EXCEPT ![t].pc = "release",
                              ![t].outcome = IF Complete(loaded_fonts_store, calls[t].id)
                                             THEN "Ok" ELSE "panic"]
    /\ UNCHANGED <<text_vars, lock, history, x11_vars, client_vars>>

\* the wrapper returns, or unwinds, and the guard is dropped
Release(t) ==
    /\ calls[t].pc = "release"
    /\ lock' = Released(lock, t)
    /\ history' = IF calls[t].op = "font_id" /\ calls[t].outcome = "Ok"
                  THEN [history EXCEPT !.returned = @ \cup {calls[t].id}]
                  ELSE history
    /\ calls' = [calls EXCEPT ![t] = IdleCall]
    /\ UNCHANGED <<text_vars, x11_vars, client_vars>>

NextThreads ==
    \/ \E t \in Threads, c \in ThreadCalls : Call(t, c)
    \/ \E t \in Threads : Acquire(t)
    \/ \E t \in Threads : AddFontsBody(t)
    \/ \E t \in Threads : FontIdLookup(t)
    \/ \E t \in Threads : FontIdLoad(t)
    \/ \E t \in Threads : FontIdInsertBegin(t)
    \/ \E t \in Threads : FontIdInsertEnd(t)
    \/ \E t \in Threads : FontIdCacheInsert(t)
    \/ \E t \in Threads : FontIdMatch(t)
    \/ \E t \in Threads : QueryBody(t)
    \/ \E t \in Threads : Release(t)

----------------------------------------------------------------------------
(* X11Client::process_x11_events (x11/client.rs): the events of the connection are
   polled in batches, KeyRelease events are held back to recognise key repeat, and
   the batch is dispatched *)

\* the events of the model: the server sends at most this many
MaxEvents == 3

\* line 465: a KeyRelease at most this many milliseconds before the KeyPress of the
\* same key is taken for a key repeat
RepeatMillis == 20

NoEvent == [kind |-> "None", detail |-> 0, time |-> 0, serial |-> 0]
PollError == [kind |-> "Err", detail |-> 0, time |-> 0, serial |-> 0]

KeyKinds == {"KeyPress", "KeyRelease"}
Keycodes == {38, 39}
\* the milliseconds between an event and the one before it
Deltas == {20, 21}

\* what poll_for_event returned with Ok(Some(..))
PolledEvents == SelectSeq(polled, LAMBDA e : e.kind # "Err")

\* the events the server sent so far, in order
Sent == PolledEvents \o xcb_connection

\* key_press.time.saturating_sub(key_release.time) on u32
saturating_sub(a, b) == IF a > b THEN a - b ELSE 0

\* the X server queues an event on the connection; the timestamps do not decrease
XServerSends(kind, detail, delta) ==
    /\ Len(Sent) < MaxEvents
    /\ LET last == IF Sent = <<>> THEN 0 ELSE Sent[Len(Sent)].time
           e == [kind |-> kind, detail |-> detail, time |-> last + delta,
                 serial |-> Len(Sent) + 1]
       IN  xcb_connection' = Append(xcb_connection, e)
    /\ UNCHANGED <<text_vars, thread_vars, client_vars, events, windows_to_refresh, last_key_release,
                   last_key_press, x11_pc, polled, dispatched>>

\* lines 433-438: a batch begins
NewBatch ==
    /\ events' = <<>>
    /\ windows_to_refresh' = {}
    /\ last_key_release' = NoEvent
    /\ last_key_press' = NoEvent

\* lines 429-438: the event loop calls process_x11_events when the connection is
\* readable (line 363)
process_x11_events ==
    /\ x11_pc = "idle"
    /\ xcb_connection # <<>>
    /\ NewBatch
    /\ x11_pc' = "poll"
    /\ UNCHANGED <<text_vars, thread_vars, client_vars, xcb_connection, polled, dispatched>>

\* lines 448-470: Event::KeyPress
KeyPressArm(batch, release, press, e) ==
    IF press # NoEvent /\ press.detail = e.detail
    THEN [events |-> batch, last_key_release |-> release, last_key_press |-> press]
    ELSE LET kept == IF /\ release # NoEvent
                        /\ \/ release.detail # e.detail
                           \/ saturating_sub(e.time, release.time) > RepeatMillis
                     THEN <<release>> ELSE <<>>
         IN  [events |-> batch \o kept \o <<e>>,
              last_key_release |-> NoEvent, last_key_press |-> e]

\* lines 439-477: poll_for_event returns Ok(Some(event))
PollEvent ==
    /\ x11_pc = "poll"
    /\ xcb_connection # <<>>
    /\ LET e == Head(xcb_connection) IN
        /\ xcb_connection' = Tail(xcb_connection)
        /\ polled' = Append(polled, e)
        /\ CASE e.kind = "Expose" ->
                  /\ windows_to_refresh' = windows_to_refresh \cup {e.detail}
                  /\ UNCHANGED <<events, last_key_release, last_key_press>>
             [] e.kind = "KeyRelease" ->
                  /\ last_key_release' = e
                  /\ UNCHANGED <<events, windows_to_refresh, last_key_press>>
             [] e.kind = "KeyPress" ->
                  LET r == KeyPressArm(events, last_key_release, last_key_press, e) IN
                  /\ events' = r.events
                  /\ last_key_release' = r.last_key_release
                  /\ last_key_press' = r.last_key_press
                  /\ UNCHANGED windows_to_refresh
             [] OTHER ->
                  /\ events' = events \o (IF last_key_release # NoEvent
                                          THEN <<last_key_release>> ELSE <<>>) \o <<e>>
                  /\ last_key_release' = NoEvent
                  /\ UNCHANGED <<windows_to_refresh, last_key_press>>
    /\ UNCHANGED <<text_vars, thread_vars, client_vars, x11_pc, dispatched>>

\* lines 493-501: the function returns when the batch is empty; else the windows
\* are refreshed and the batch is dispatched
AfterPolling(batch, windows) ==
    IF batch = <<>> /\ windows = {} THEN "idle" ELSE "dispatch"

\* lines 479-485: poll_for_event returns Ok(None): the KeyRelease held back is
\* pushed, and the polling is over
PollNone ==
    /\ x11_pc = "poll"
    /\ xcb_connection = <<>>
    /\ events' = events \o (IF last_key_release # NoEvent THEN <<last_key_release>> ELSE <<>>)
    /\ last_key_release' = NoEvent
    /\ x11_pc' = AfterPolling(events', windows_to_refresh)
    /\ windows_to_refresh' = {}
    /\ UNCHANGED <<text_vars, thread_vars, client_vars, xcb_connection, last_key_press, polled, dispatched>>

\* lines 486-489: poll_for_event returns Err: the polling is over, with no push of
\* the KeyRelease held back. The model lets the connection fail once.
PollErr ==
    /\ x11_pc = "poll"
    /\ \A i \in 1..Len(polled) : polled[i].kind # "Err"
    /\ polled' = Append(polled, PollError)
    /\ x11_pc' = AfterPolling(events, windows_to_refresh)
    /\ windows_to_refresh' = {}
    /\ UNCHANGED <<text_vars, thread_vars, client_vars, xcb_connection, events, last_key_release,
                   last_key_press, dispatched>>

\* lines 505-543: where the loop hands the event, given what the input method does
\* with it: no ximc or no handler (505-509), filtered by the input method (534-536),
\* or passed on to xim_handle_event or handle_event (538-542)
XimStates == {"none", "filtered", "connected", "unconnected"}
Route(xim) ==
    CASE xim = "none" -> "handle_event"
      [] xim = "filtered" -> "xim_filtered"
      [] xim = "connected" -> "xim_handle_event"
      [] xim = "unconnected" -> "handle_event"

\* lines 503-543: one turn of `for event in events.into_iter()`
DispatchEvent(xim) ==
    /\ x11_pc = "dispatch"
    /\ events # <<>>
    /\ dispatched' = Append(dispatched, [event |-> Head(events), to |-> Route(xim),
                                         seen |-> Len(PolledEvents)])
    /\ events' = Tail(events)
    /\ UNCHANGED <<text_vars, thread_vars, client_vars, xcb_connection, windows_to_refresh,
                   last_key_release, last_key_press, x11_pc, polled>>

\* line 432: the batch is dispatched, the outer loop polls again
NextLoop ==
    /\ x11_pc = "dispatch"
    /\ events = <<>>
    /\ NewBatch
    /\ x11_pc' = "poll"
    /\ UNCHANGED <<text_vars, thread_vars, client_vars, xcb_connection, polled, dispatched>>

NextX11 ==
    \/ \E kind \in KeyKinds, detail \in Keycodes, delta \in Deltas :
          XServerSends(kind, detail, delta)
    \/ \E kind \in {"Expose", "Other"} : XServerSends(kind, 1, 0)
    \/ process_x11_events
    \/ PollEvent
    \/ PollNone
    \/ PollErr
    \/ \E xim \in XimStates : DispatchEvent(xim)
    \/ NextLoop

----------------------------------------------------------------------------
(* X11Client (x11/client.rs): the state of the client behind its RefCell, the
   windows it holds, and the calls it makes on the windows. The code of the windows
   is not in the files read: what a window callback does is an input. *)

WindowIds == {1, 2}
\* Option::None of an xproto::Window
NoWindow == 0
\* Option<f32> of a scroll baseline
NoScroll == [some |-> FALSE, value |-> 0]
SomeScroll(v) == [some |-> TRUE, value |-> v]

\* at most this many steps of the clock
MaxTicks == 4

\* lines 223-237 and 343-424: the state X11Client::new builds; ximc is what
\* X11rbClient::init(..).ok() gave, and the handler exists when it does (343-348)
NewClientState(xim) ==
    [windows |-> EmptyMap,
     mouse_focused_window |-> NoWindow,
     keyboard_focused_window |-> NoWindow,
     cursor_styles |-> EmptyMap,
     ximc |-> xim, xim_handler |-> xim, composing |-> FALSE, pre_edit_text |-> FALSE,
     pre_ime_key_down |-> FALSE,
     scroll_x |-> NoScroll, scroll_y |-> NoScroll,
     last_click |-> 0, last_location |-> 0, current_count |-> 0,
     stopped |-> FALSE]

\* before X11Client::new
NoClientState == NewClientState(FALSE)

\* what has been seen of the calls so far, kept apart from the state of the client:
\* the last MouseDown handed to a window, and the scroll readings of each axis that
\* the X server has sent since the last normal XinputLeave
NoGhost == [down |-> [some |-> FALSE, count |-> 0, at |-> 0, position |-> 0],
            read_x |-> {}, read_y |-> {}]

\* the client as a process: whether it was built and is still alive (an Rc with weak
\* pointers to it in the windows), on which platform, the clock, and its event loop:
\* the runnables in the main channel, the idle callbacks, the events readable on
\* the X connection, the sources found ready by the poll of this iteration, the X
\* events that were readable at that poll and are not handled yet, the runnables
\* that ran, and whether `run` holds the state borrowed
NoCell == [created |-> FALSE, alive |-> FALSE, panicked |-> FALSE, hung |-> FALSE,
           platform |-> "none", now |-> 0, ticks |-> 0,
           phase |-> "none", todo |-> {}, channel |-> <<>>, idle |-> <<>>,
           xqueue |-> <<>>, unhandled |-> 0, sent |-> 0, ran |-> <<>>, borrowed |-> FALSE,
           ghost |-> NoGhost]

\* the last call on the client: its outcome, the calls it made, the time it ran at
NoTrace == [op |-> "none", outcome |-> "Ok", window |-> NoWindow, calls |-> <<>>, at |-> 0]

\* the client exists, and no call on it has panicked or hangs
Running == cell.created /\ cell.alive /\ ~cell.panicked /\ ~cell.hung

\* a call of the client into a window: whether the RefCell of the client was mutably
\* borrowed by the caller at that time, whether the window was marked destroyed,
\* whether the XIM client was in the state, what the call carried, and what the
\* callback called on the client in its turn, and whether it returned
WindowCall(c, callback, w, borrowed) ==
    [callback |-> callback, window |-> w, borrowed |-> borrowed,
     destroyed |-> IF w \in DOMAIN c.windows THEN c.windows[w].destroyed ELSE FALSE,
     ximc |-> c.ximc, arg |-> <<>>, reenter |-> "none", returned |-> TRUE]

\* what a call on the client leaves: the state, the calls it made, its outcome
Done(c, made) == [c |-> c, calls |-> made, outcome |-> "Ok"]
Panic(c, made) == [c |-> c, calls |-> made, outcome |-> "panic"]

\* the call is over: the state is stored, the calls are recorded
FinishWith(op, w, r, ghost) ==
    /\ client' = r.c
    /\ trace' = [op |-> op, outcome |-> r.outcome, window |-> w, calls |-> r.calls,
                 at |-> cell.now]
    /\ cell' = [cell EXCEPT !.panicked = (r.outcome = "panic"), !.hung = (r.outcome = "hang"),
                            !.ghost = ghost]

Finish(op, w, r) == FinishWith(op, w, r, cell.ghost)

\* lines 217-424
new(xim) ==
    /\ ~cell.created
    /\ client' = NewClientState(xim)
    /\ cell' = [cell EXCEPT !.created = TRUE, !.alive = TRUE, !.platform = "x11"]
    /\ trace' = [NoTrace EXCEPT !.op = "new"]
    /\ UNCHANGED <<text_vars, thread_vars, x11_vars>>

\* time passes
Tick(d) ==
    /\ Running
    /\ cell.ticks < MaxTicks
    /\ cell' = [cell EXCEPT !.now = @ + d, !.ticks = @ + 1]
    /\ UNCHANGED <<text_vars, thread_vars, x11_vars, client, trace>>

\* lines 601-608: the window of the map that is not marked destroyed
HasWindow(c, w) == w \in DOMAIN c.windows /\ ~c.windows[w].destroyed

\* randr::ModeInfo: dot_clock is a u32, htotal and vtotal are u16
Modes ==
    {[dot_clock |-> 0, htotal |-> 250, vtotal |-> 100],
     [dot_clock |-> 1500000, htotal |-> 250, vtotal |-> 100],
     [dot_clock |-> 1, htotal |-> 100, vtotal |-> 100],
     [dot_clock |-> 2000000, htotal |-> 1, vtotal |-> 1]}

\* lines 1426-1435, in microseconds; the division by a zero millihertz panics
mode_refresh_rate(mode) ==
    IF mode.dot_clock = 0 \/ mode.htotal = 0 \/ mode.vtotal = 0
    THEN [outcome |-> "Ok", micros |-> 16000]
    ELSE LET millihertz == (mode.dot_clock * 1000) \div (mode.htotal * mode.vtotal) IN
         IF millihertz = 0 THEN [outcome |-> "panic", micros |-> 0]
         ELSE [outcome |-> "Ok", micros |-> 1000000000 \div millihertz]

\* lines 1168-1240: the window is created, its refresh timer is armed at once
\* (Timer::immediate) and the window is put in the map
OpenWindowCall(c, w, mode, now) ==
    LET rate == mode_refresh_rate(mode) IN
    IF rate.outcome = "panic" THEN Panic(c, <<>>)
    ELSE Done([c EXCEPT !.windows = MapPut(@, w, [destroyed |-> FALSE, deadline |-> now,
                                                   refresh_duration |-> rate.micros])],
              <<>>)

open_window(w, mode) ==
    /\ Running
    /\ w \notin DOMAIN client.windows
    /\ Finish("open_window", w, OpenWindowCall(client, w, mode, cell.now))
    /\ UNCHANGED <<text_vars, thread_vars, x11_vars>>

\* lines 1224-1228: `while instant < now { instant += refresh_duration }`; with a
\* zero duration and a deadline in the past the loop does not end
RECURSIVE CatchUp(_, _, _)
CatchUp(instant, now, refresh_duration) ==
    IF ~(instant < now) THEN [ends |-> TRUE, instant |-> instant]
    ELSE IF refresh_duration = 0 THEN [ends |-> FALSE, instant |-> instant]
    ELSE CatchUp(instant + refresh_duration, now, refresh_duration)

\* lines 1209-1229: the callback of the refresh timer of window w: the window of the
\* map is refreshed, with the borrow dropped (1213-1217), and the timer is armed again
RefreshTimerCall(c, w, now) ==
    LET made == IF w \in DOMAIN c.windows THEN <<WindowCall(c, "refresh", w, FALSE)>> ELSE <<>>
        next == CatchUp(c.windows[w].deadline, now, c.windows[w].refresh_duration)
    IN  IF ~next.ends THEN [c |-> c, calls |-> made, outcome |-> "hang"]
        ELSE Done([c EXCEPT !.windows[w].deadline = next.instant], made)

\* the timer of a window of the map fires when its deadline is reached
refresh_timer(w) ==
    /\ Running
    /\ w \in DOMAIN client.windows
    /\ client.windows[w].deadline <= cell.now
    /\ Finish("refresh_timer", w, RefreshTimerCall(client, w, cell.now))
    /\ UNCHANGED <<text_vars, thread_vars, x11_vars>>

\* DropWindowCall that forgets the cursor style of the window
DropWindowCall_keeps_style(c, w) ==
    LET c1 == [c EXCEPT !.windows = [x \in DOMAIN @ \ {w} |-> @[x]]]
        c2 == IF c1.mouse_focused_window = w THEN [c1 EXCEPT !.mouse_focused_window = NoWindow] ELSE c1
        c3 == IF c2.keyboard_focused_window = w
              THEN [c2 EXCEPT !.keyboard_focused_window = NoWindow] ELSE c2
    IN  Done(IF DOMAIN c3.windows = {} THEN [c3 EXCEPT !.stopped = TRUE] ELSE c3, <<>>)

\* lines 155-173, once the client is resolved: the window and its timer leave the map,
\* the focus fields and the cursor style that name it are cleared, and the signal
\* of the event loop is stopped when no window is left
DropWindowCall(c, w) ==
    LET c1 == [c EXCEPT !.windows = [x \in DOMAIN @ \ {w} |-> @[x]]]
        c2 == IF c1.mouse_focused_window = w THEN [c1 EXCEPT !.mouse_focused_window = NoWindow] ELSE c1
        c3 == IF c2.keyboard_focused_window = w
              THEN [c2 EXCEPT !.keyboard_focused_window = NoWindow] ELSE c2
        c4 == [c3 EXCEPT !.cursor_styles = [x \in DOMAIN @ \ {w} |-> @[x]]]
    IN  Done(IF DOMAIN c4.windows = {} THEN [c4 EXCEPT !.stopped = TRUE] ELSE c4, <<>>)

\* a window calls drop_window through its X11ClientStatePtr: get_client (150-153)
\* expects the client to be there
drop_window(w) ==
    /\ cell.created /\ ~cell.panicked /\ ~cell.hung
    /\ Finish("drop_window", w,
              IF cell.alive THEN DropWindowCall(client, w) ELSE Panic(client, <<>>))
    /\ UNCHANGED <<text_vars, thread_vars, x11_vars>>

\* the window is dropped by the application and marks itself destroyed: the flag
\* get_window reads at line 606. Its drop_window call comes later.
destroy_window(w) ==
    /\ Running
    /\ w \in DOMAIN client.windows /\ ~client.windows[w].destroyed
    /\ client' = [client EXCEPT !.windows[w].destroyed = TRUE]
    /\ trace' = [NoTrace EXCEPT !.op = "destroy_window", !.window = w]
    /\ UNCHANGED <<text_vars, thread_vars, x11_vars, cell>>

\* one call after another: a panic ends the sequence
Then(r, F(_)) ==
    IF r.outcome # "Ok" THEN r
    ELSE LET n == F(r.c) IN [c |-> n.c, calls |-> r.calls \o n.calls, outcome |-> n.outcome]

\* what the callbacks of the application do on the client while they run
Reentries == {"none", "with_common", "update_ime_position"}

\* UpdateImePositionCall that does not look whether the XIM client is there
UpdateImePositionCall_unchecked(c) ==
    IF c.composing THEN Done(c, <<>>)
    ELSE IF ~c.ximc THEN Panic(c, <<>>)
    ELSE LET taken == [c EXCEPT !.ximc = FALSE] IN
         IF ~taken.xim_handler THEN Panic(taken, <<>>)
         ELSE Done([taken EXCEPT !.ximc = TRUE, !.xim_handler = TRUE], <<>>)

\* lines 175-209, once the client is resolved: nothing is done while composing or
\* while there is no XIM client; else both are taken, used and put back
UpdateImePositionCall(c) ==
    IF c.composing \/ ~c.ximc THEN Done(c, <<>>)
    ELSE LET taken == [c EXCEPT !.ximc = FALSE] IN
         IF ~taken.xim_handler THEN Panic(taken, <<>>)
         ELSE Done([taken EXCEPT !.ximc = TRUE, !.xim_handler = TRUE], <<>>)

\* a callback of window w runs and calls the client back (with_common, 1115-1117,
\* and update_ime_position, 175-178, both borrow the state mutably: a caller that
\* still holds its own borrow makes that a BorrowMutError panic)
Callback(c, callback, w, borrowed, arg, reenter) ==
    LET call == [WindowCall(c, callback, w, borrowed) EXCEPT !.arg = arg, !.reenter = reenter]
        r == IF reenter = "none" THEN Done(c, <<>>)
             ELSE IF borrowed THEN Panic(c, <<>>)
             ELSE IF reenter = "update_ime_position" THEN UpdateImePositionCall(c)
             ELSE Done(c, <<>>)
    IN  [r EXCEPT !.calls = <<[call EXCEPT !.returned = (r.outcome = "Ok")]>>]

\* lines 548-590
EnableImeCall(c, reenter) ==
    IF ~c.ximc THEN Done(c, <<>>)
    ELSE LET c1 == [c EXCEPT !.ximc = FALSE] IN
         IF ~c1.xim_handler THEN Panic(c1, <<>>)
         ELSE LET taken == [c1 EXCEPT !.xim_handler = FALSE]
                  window_id == taken.keyboard_focused_window
                  area == IF window_id = NoWindow THEN Done(taken, <<>>)
                          ELSE IF ~HasWindow(taken, window_id) THEN Panic(taken, <<>>)
                          ELSE Callback(taken, "get_ime_area", window_id, FALSE, <<>>, reenter)
              IN  Then(area, LAMBDA c2 : Done([c2 EXCEPT !.xim_handler = TRUE, !.ximc = TRUE], <<>>))

\* lines 592-599
DisableImeCall(c) ==
    LET c1 == [c EXCEPT !.composing = FALSE] IN
    IF ~c1.ximc THEN Done(c1, <<>>)
    ELSE LET taken == [c1 EXCEPT !.ximc = FALSE] IN
         IF ~taken.xim_handler THEN Panic(taken, <<>>)
         ELSE Done([taken EXCEPT !.ximc = TRUE], <<>>)

\* lines 612-630, the WM_DELETE_WINDOW message: should_close and close are called
\* while `state`, borrowed at line 615, is alive
ClientMessageCall(c, e, cb) ==
    IF ~HasWindow(c, e.window) THEN Done(c, <<>>)
    ELSE Then(Callback(c, "should_close", e.window, TRUE, <<>>, cb.reenter),
              LAMBDA c1 : IF cb.should_close
                          THEN Callback(c1, "close", e.window, TRUE, <<>>, cb.reenter)
                          ELSE Done(c1, <<>>))

\* lines 649-656
FocusInCall(c, e, cb) ==
    IF ~HasWindow(c, e.window) THEN Done(c, <<>>)
    ELSE Then(Callback(c, "set_active", e.window, FALSE, <<TRUE>>, cb.reenter),
              LAMBDA c1 : EnableImeCall([c1 EXCEPT !.keyboard_focused_window = e.window],
                                        cb.reenter))

\* lines 657-669
FocusOutCall(c, e, cb) ==
    IF ~HasWindow(c, e.window) THEN Done(c, <<>>)
    ELSE Then(Then(Callback(c, "set_active", e.window, FALSE, <<FALSE>>, cb.reenter),
                   LAMBDA c1 : DisableImeCall([c1 EXCEPT !.keyboard_focused_window = NoWindow,
                                                         !.pre_edit_text = FALSE])),
              LAMBDA c2 : Callback(c2, "handle_ime_delete", e.window, FALSE, <<>>, cb.reenter))

\* lines 970-975; an Enter that is not of mode NORMAL falls to `_ => {}` (999)
XinputEnterCall(c, e, cb) ==
    IF ~e.normal \/ ~HasWindow(c, e.window) THEN Done(c, <<>>)
    ELSE Then(Callback(c, "set_hovered", e.window, FALSE, <<TRUE>>, cb.reenter),
              LAMBDA c1 : Done([c1 EXCEPT !.mouse_focused_window = e.window], <<>>))

\* XinputLeaveCall that forgets the horizontal baseline only
XinputLeaveCall_keeps_y(c, e, cb) ==
    IF ~e.normal THEN Done(c, <<>>)
    ELSE LET c1 == [c EXCEPT !.scroll_x = NoScroll, !.mouse_focused_window = NoWindow] IN
         IF ~HasWindow(c1, e.window) THEN Done(c1, <<>>)
         ELSE Then(Callback(c1, "MouseExited", e.window, FALSE, <<>>, cb.reenter),
                   LAMBDA c2 : Callback(c2, "set_hovered", e.window, FALSE, <<FALSE>>, cb.reenter))

\* lines 976-998
XinputLeaveCall(c, e, cb) ==
    IF ~e.normal THEN Done(c, <<>>)
    ELSE LET c1 == [c EXCEPT !.scroll_x = NoScroll, !.scroll_y = NoScroll,
                             !.mouse_focused_window = NoWindow] IN
         IF ~HasWindow(c1, e.window) THEN Done(c1, <<>>)
         ELSE Then(Callback(c1, "MouseExited", e.window, FALSE, <<>>, cb.reenter),
                   LAMBDA c2 : Callback(c2, "set_hovered", e.window, FALSE, <<FALSE>>, cb.reenter))

CursorStyles == {"Arrow", "IBeam"}

\* lines 1242-1283: `cursor` is whether the cursor is in the cache or load_cursor
\* gives it (1255-1267), `reply` whether the X server accepts the change (1280-1282)
SetCursorStyleCall(c, style, cursor, reply) ==
    LET focused_window == c.mouse_focused_window
        current_style == IF focused_window \in DOMAIN c.cursor_styles
                         THEN c.cursor_styles[focused_window] ELSE "Arrow"
    IN  IF focused_window = NoWindow \/ current_style = style \/ ~cursor THEN Done(c, <<>>)
        ELSE LET c1 == [c EXCEPT !.cursor_styles = MapPut(@, focused_window, style)] IN
             IF reply THEN Done(c1, <<>>) ELSE Panic(c1, <<>>)

set_cursor_style(style, cursor, reply) ==
    /\ Running
    /\ Finish("set_cursor_style", client.mouse_focused_window,
              SetCursorStyleCall(client, style, cursor, reply))
    /\ UNCHANGED <<text_vars, thread_vars, x11_vars>>

\* lines 716-783: `compose` is the status of the compose state after the key
KeyPressCall(c0, e, cb) ==
    IF ~HasWindow(c0, e.window) THEN Done(c0, <<>>)
    ELSE LET c == [c0 EXCEPT !.pre_ime_key_down = FALSE]
             composed ==
                 IF e.compose = "Composing"
                 THEN Callback([c EXCEPT !.pre_edit_text = TRUE], "handle_ime_preedit",
                               e.window, FALSE, <<>>, cb.reenter)
                 ELSE IF e.compose = "Cancelled" /\ c.pre_edit_text
                 THEN Callback([c EXCEPT !.pre_edit_text = FALSE], "handle_ime_commit",
                               e.window, FALSE, <<>>, cb.reenter)
                 ELSE Done([c EXCEPT !.pre_edit_text = @ /\ e.compose = "None"], <<>>)
         IN  IF e.modifier THEN Done(c, <<>>)
             ELSE Then(composed,
                       LAMBDA c1 : Callback(c1, "KeyDown", e.window, FALSE, <<>>, cb.reenter))

\* lines 784-810
KeyReleaseCall(c, e, cb) ==
    IF ~HasWindow(c, e.window) \/ e.modifier THEN Done(c, <<>>)
    ELSE Callback(c, "KeyUp", e.window, FALSE, <<>>, cb.reenter)

\* the double-click interval imported at line 40, in microseconds; what is checked
\* does not depend on its value
DOUBLE_CLICK_INTERVAL == 400000

\* line 842: positions are places, and two positions are within click distance of
\* each other when they are the same place
Places == {0, 1}
is_within_click_distance(a, b) == a = b

\* lines 812-861: `button` is whether button_of_key knows the button
XinputButtonPressCall(c, e, now, cb) ==
    IF ~HasWindow(c, e.window) THEN Done(c, <<>>)
    ELSE LET ime ==
                 IF c.composing /\ c.ximc
                 THEN Then(Then(DisableImeCall(c), LAMBDA c1 : EnableImeCall(c1, cb.reenter)),
                           LAMBDA c2 : Callback(c2, "handle_ime_unmark", e.window, FALSE, <<>>,
                                                cb.reenter))
                 ELSE IF c.pre_edit_text
                 THEN Callback([c EXCEPT !.pre_edit_text = FALSE], "handle_ime_commit",
                               e.window, FALSE, <<>>, cb.reenter)
                 ELSE Done(c, <<>>)
             Press(s) ==
                 LET click_elapsed == now - s.last_click
                     current_count ==
                         IF click_elapsed < DOUBLE_CLICK_INTERVAL
                            /\ is_within_click_distance(s.last_location, e.position)
                         THEN s.current_count + 1 ELSE 1
                 IN  Callback([s EXCEPT !.current_count = current_count, !.last_click = now,
                                        !.last_location = e.position],
                              "MouseDown", e.window, FALSE, <<current_count, e.position>>, cb.reenter)
         IN  IF e.button THEN Then(ime, Press) ELSE ime

\* XinputButtonReleaseCall that counts every release as a single click
XinputButtonReleaseCall_single(c, e, cb) ==
    IF ~HasWindow(c, e.window) \/ ~e.button THEN Done(c, <<>>)
    ELSE Callback(c, "MouseUp", e.window, FALSE, <<1>>, cb.reenter)

\* lines 863-883
XinputButtonReleaseCall(c, e, cb) ==
    IF ~HasWindow(c, e.window) \/ ~e.button THEN Done(c, <<>>)
    ELSE Callback(c, "MouseUp", e.window, FALSE, <<c.current_count>>, cb.reenter)

\* the lines of one unit of scrolling, imported at line 40, and the increment of
\* the scroll classes of the pointer (lines 268-276)
SCROLL_LINES == 3
ScrollIncrement == 15

\* lines 921-923 and 942-944, for axis values that are multiples of the increment
new_scroll(axisvalue) == (axisvalue \div ScrollIncrement) * SCROLL_LINES

\* lines 884-968: `moved` is bit 0 or 1 of the valuator mask; axis_x and axis_y are
\* the values of the valuators of the horizontal and of the vertical scroll class,
\* when the mask has them. A ScrollWheel call is written down with its delta and
\* with the type of the scroll class it came from.
XinputMotionCall(c, e, cb) ==
    IF ~HasWindow(c, e.window) THEN Done(c, <<>>)
    ELSE LET move == IF e.moved
                     THEN Callback(c, "MouseMove", e.window, FALSE, <<>>, cb.reenter)
                     ELSE Done(c, <<>>)
             Horizontal(s) ==
                 IF ~e.axis_x.some THEN Done(s, <<>>)
                 ELSE LET reading == new_scroll(e.axis_x.value)
                          old_scroll == s.scroll_x
                          s1 == [s EXCEPT !.scroll_x = SomeScroll(reading)]
                      IN  IF old_scroll.some
                          THEN Callback(s1, "ScrollWheel", e.window, FALSE,
                                        <<old_scroll.value - reading, 0, "HORIZONTAL">>, cb.reenter)
                          ELSE Done(s1, <<>>)
             Vertical(s) ==
                 IF ~e.axis_y.some THEN Done(s, <<>>)
                 ELSE LET reading == new_scroll(e.axis_y.value)
                          old_scroll == s.scroll_y
                          s1 == [s EXCEPT !.scroll_y = SomeScroll(reading)]
                          delta_scroll == old_scroll.value - reading
                      IN  IF old_scroll.some
                          THEN Callback(s1, "ScrollWheel", e.window, FALSE,
                                        IF ~e.shift THEN <<0, delta_scroll, "VERTICAL">>
                                        ELSE <<delta_scroll, 0, "VERTICAL">>, cb.reenter)
                          ELSE Done(s1, <<>>)
         IN  Then(Then(move, Horizontal), Vertical)

\* lines 610-1002: the handler of one event; the events not named change no state
\* that is modelled
HandleEventCall(c, e, now, cb) ==
    CASE e.kind = "ClientMessage" -> ClientMessageCall(c, e, cb)
      [] e.kind = "FocusIn" -> FocusInCall(c, e, cb)
      [] e.kind = "FocusOut" -> FocusOutCall(c, e, cb)
      [] e.kind = "KeyPress" -> KeyPressCall(c, e, cb)
      [] e.kind = "KeyRelease" -> KeyReleaseCall(c, e, cb)
      [] e.kind = "XinputButtonPress" -> XinputButtonPressCall(c, e, now, cb)
      [] e.kind = "XinputButtonRelease" -> XinputButtonReleaseCall(c, e, cb)
      [] e.kind = "XinputMotion" -> XinputMotionCall(c, e, cb)
      [] e.kind = "XinputEnter" -> XinputEnterCall(c, e, cb)
      [] e.kind = "XinputLeave" -> XinputLeaveCall(c, e, cb)
      [] OTHER -> Done(c, <<>>)

\* lines 1049-1064
XimHandleCommitCall(c, e, cb) ==
    IF ~HasWindow(c, e.window) THEN Panic(c, <<>>)
    ELSE LET c1 == [c EXCEPT !.pre_ime_key_down = FALSE, !.composing = FALSE] IN
         IF c.pre_ime_key_down
         THEN Callback(c1, "KeyDown", e.window, FALSE, <<>>, cb.reenter)
         ELSE Done(c1, <<>>)

\* lines 1066-1107: the callbacks run while the XIM client and its handler are
\* taken out of the state
XimHandlePreeditCall(c, e, text_empty, cb) ==
    IF ~HasWindow(c, e.window) \/ ~c.ximc THEN Panic(c, <<>>)
    ELSE LET c1 == [c EXCEPT !.ximc = FALSE] IN
         IF ~c1.xim_handler THEN Panic(c1, <<>>)
         ELSE LET taken == [c1 EXCEPT !.xim_handler = FALSE, !.composing = ~text_empty] IN
              Then(Then(Callback(taken, "handle_ime_preedit", e.window, FALSE, <<>>, cb.reenter),
                        LAMBDA c2 : Callback(c2, "get_ime_area", e.window, FALSE, <<>>,
                                             cb.reenter)),
                   LAMBDA c3 : Done([c3 EXCEPT !.ximc = TRUE, !.xim_handler = TRUE], <<>>))

\* lines 1019-1047: `forwarded` is whether forward_event gives Ok
XimHandleEventCall(c, e, now, cb, forwarded) ==
    IF e.kind \notin {"KeyPress", "KeyRelease"} THEN HandleEventCall(c, e, now, cb)
    ELSE LET c1 == [c EXCEPT !.pre_ime_key_down = TRUE] IN
         IF ~c1.ximc THEN Panic(c1, <<>>)
         ELSE LET c2 == [c1 EXCEPT !.ximc = FALSE] IN
              IF ~c2.xim_handler THEN Panic(c2, <<>>)
              ELSE LET taken == [c2 EXCEPT !.xim_handler = FALSE] IN
                   IF ~forwarded THEN Panic(taken, <<>>)
                   ELSE Done([taken EXCEPT !.ximc = TRUE, !.xim_handler = TRUE], <<>>)

\* what the XIM library makes of an event: whether it filters it, the callback
\* event it leaves, whether the handler is connected, whether forwarding works
XimReplies ==
    {xim \in [filtered : BOOLEAN, callback : {"None", "XimCommitEvent", "XimPreeditEvent"},
              text_empty : BOOLEAN, connected : BOOLEAN, forwarded : BOOLEAN] :
        /\ xim.callback # "XimPreeditEvent" => xim.text_empty
        /\ xim.filtered => xim.connected /\ xim.forwarded
        /\ ~xim.connected => xim.forwarded}

\* lines 503-543: one turn of the loop over the events of a batch
DispatchCall(c, e, now, cb, xim) ==
    IF ~c.ximc \/ ~c.xim_handler THEN HandleEventCall(c, e, now, cb)
    ELSE LET taken == [c EXCEPT !.ximc = FALSE, !.xim_handler = FALSE]
             back == [taken EXCEPT !.ximc = TRUE, !.xim_handler = TRUE]
             callback == IF xim.callback = "XimCommitEvent" THEN XimHandleCommitCall(back, e, cb)
                         ELSE IF xim.callback = "XimPreeditEvent"
                         THEN XimHandlePreeditCall(back, e, xim.text_empty, cb)
                         ELSE Done(back, <<>>)
         IN  IF xim.filtered THEN callback
             ELSE IF xim.connected
             THEN Then(callback, LAMBDA c1 : XimHandleEventCall(c1, e, now, cb, xim.forwarded))
             ELSE Then(callback, LAMBDA c1 : HandleEventCall(c1, e, now, cb))

\* an event with the fields the handlers read
Event(kind, w) ==
    [kind |-> kind, window |-> w, normal |-> TRUE, modifier |-> FALSE, compose |-> "None",
     button |-> TRUE, position |-> 0, moved |-> FALSE, axis_x |-> NoScroll,
     axis_y |-> NoScroll, shift |-> FALSE]

\* the callbacks of the application: what they do on the client, what should_close says
Callbacks == [reenter : Reentries, should_close : BOOLEAN]
Quiet == [reenter |-> "none", should_close |-> TRUE]

\* the last call of `made` that is a MouseDown, or the one known before
RECURSIVE LastDown(_, _, _)
LastDown(made, now, before) ==
    IF made = <<>> THEN before
    ELSE LET call == made[Len(made)] IN
         IF call.callback = "MouseDown"
         THEN [some |-> TRUE, count |-> call.arg[1], at |-> now, position |-> call.arg[2]]
         ELSE LastDown(SubSeq(made, 1, Len(made) - 1), now, before)

\* what is seen of the handling of event e
Observed(g, e, now, r) ==
    LET leave == e.kind = "XinputLeave" /\ e.normal
        motion == e.kind = "XinputMotion"
    IN  [down |-> LastDown(r.calls, now, g.down),
         read_x |-> IF leave THEN {}
                    ELSE IF motion /\ e.axis_x.some THEN g.read_x \cup {new_scroll(e.axis_x.value)}
                    ELSE g.read_x,
         read_y |-> IF leave THEN {}
                    ELSE IF motion /\ e.axis_y.some THEN g.read_y \cup {new_scroll(e.axis_y.value)}
                    ELSE g.read_y]

\* one event is handed to handle_event (line 503-508, without XIM)
handle_event(e, cb) ==
    /\ Running
    /\ LET r == HandleEventCall(client, e, cell.now, cb) IN
       FinishWith(e.kind, e.window, r, Observed(cell.ghost, e, cell.now, r))
    /\ UNCHANGED <<text_vars, thread_vars, x11_vars>>

\* one event of a batch goes through the XIM filter and to its handler (503-543)
dispatch(e, cb, xim) ==
    /\ Running
    /\ LET r == DispatchCall(client, e, cell.now, cb, xim) IN
       FinishWith(e.kind, e.window, r, Observed(cell.ghost, e, cell.now, r))
    /\ UNCHANGED <<text_vars, thread_vars, x11_vars>>

\* a window hands the client the place of its input cursor, through its
\* X11ClientStatePtr (175-178)
update_ime_position ==
    /\ cell.created /\ ~cell.panicked /\ ~cell.hung
    /\ Finish("update_ime_position", NoWindow,
              IF cell.alive THEN UpdateImePositionCall(client) ELSE Panic(client, <<>>))
    /\ UNCHANGED <<text_vars, thread_vars, x11_vars>>

\* the events of a batch, one after the other (503-543, without XIM)
RECURSIVE HandleAll(_, _, _, _)
HandleAll(c, batch, now, cb) ==
    IF batch = <<>> THEN Done(c, <<>>)
    ELSE Then(HandleEventCall(c, Head(batch), now, cb),
              LAMBDA c1 : HandleAll(c1, Tail(batch), now, cb))

\* the runnables of `msgs` run one after the other; a runnable may call with_common
RECURSIVE RunAll(_, _, _)
RunAll(c, msgs, borrowed) ==
    IF msgs = <<>> THEN Done(c, <<>>)
    ELSE Then(Callback(c, "runnable", NoWindow, borrowed, <<Head(msgs).id>>, Head(msgs).reenter),
              LAMBDA c1 : RunAll(c1, Tail(msgs), borrowed))

\* the ids of the runnables that were run by RunAll
RanIn(made) == [i \in DOMAIN made |-> made[i].arg[1]]

\* the callback of the main channel that runs the runnables itself
MainReceiverCall_runs(c, msgs, idle) ==
    [r |-> RunAll(c, msgs, FALSE), idle |-> idle]

\* lines 223-237: the callback of the main channel of the X11 client: each runnable
\* received becomes an idle callback of the loop
MainReceiverCall(c, msgs, idle) ==
    [r |-> Done(c, <<>>), idle |-> idle \o msgs]

\* wayland/client.rs lines 172-177: the callback of the main channel of the Wayland
\* client runs the runnable; the state is the data of the loop, borrowed by run
WaylandReceiverCall(c, msgs, idle) ==
    [r |-> RunAll(c, msgs, TRUE), idle |-> idle]

\* at most this many runnables are sent, and this many X events wait to be read
MaxRunnables == 2
MaxQueued == 2

\* WaylandClient::new (wayland/client.rs 152-209)
wayland_new ==
    /\ ~cell.created
    /\ client' = NoClientState
    /\ cell' = [cell EXCEPT !.created = TRUE, !.alive = TRUE, !.platform = "wayland"]
    /\ trace' = [NoTrace EXCEPT !.op = "new"]
    /\ UNCHANGED <<text_vars, thread_vars, x11_vars>>

\* x11/client.rs 1360-1369 and wayland/client.rs 288-304: the loop starts; the
\* Wayland client hands it `&mut self.0.borrow_mut()`, a borrow that lasts as long
\* as the loop runs
run ==
    /\ Running
    /\ cell.phase = "none"
    /\ cell' = [cell EXCEPT !.phase = "wait", !.borrowed = (cell.platform = "wayland")]
    /\ trace' = [NoTrace EXCEPT !.op = "run"]
    /\ UNCHANGED <<text_vars, thread_vars, x11_vars, client>>

\* a task is scheduled on the main thread: its runnable is sent on the main channel
spawn(reenter) ==
    /\ Running
    /\ cell.sent < MaxRunnables
    /\ cell' = [cell EXCEPT !.sent = @ + 1,
                            !.channel = Append(@, [id |-> cell.sent + 1, reenter |-> reenter])]
    /\ UNCHANGED <<text_vars, thread_vars, x11_vars, client, trace>>

\* the X server sends an event
XServerQueues(e) ==
    /\ Running
    /\ cell.platform = "x11"
    /\ Len(cell.xqueue) < MaxQueued
    /\ cell' = [cell EXCEPT !.xqueue = Append(@, e)]
    /\ UNCHANGED <<text_vars, thread_vars, x11_vars, client, trace>>

\* an iteration of the loop begins: the poll finds the sources that are ready
poll ==
    /\ Running
    /\ cell.phase = "wait"
    /\ cell.channel # <<>> \/ cell.xqueue # <<>>
    /\ cell' = [cell EXCEPT !.phase = "sources",
                            !.todo = {src \in {"channel", "x11"} :
                                         \/ src = "channel" /\ cell.channel # <<>>
                                         \/ src = "x11" /\ cell.xqueue # <<>>},
                            !.unhandled = Len(cell.xqueue)]
    /\ trace' = [NoTrace EXCEPT !.op = "poll"]
    /\ UNCHANGED <<text_vars, thread_vars, x11_vars, client>>

\* after the last source of an iteration come the idle callbacks, then the next poll
PhaseAfter(todo, idle) ==
    IF todo # {} THEN "sources" ELSE IF idle # <<>> THEN "idles" ELSE "wait"

\* the source of the main channel is dispatched: its callback gets every runnable
\* that is in the channel
main_receiver ==
    /\ Running
    /\ cell.phase = "sources" /\ "channel" \in cell.todo
    /\ LET got == IF cell.platform = "wayland"
                  THEN WaylandReceiverCall(client, cell.channel, cell.idle)
                  ELSE MainReceiverCall(client, cell.channel, cell.idle)
           todo == cell.todo \ {"channel"}
       IN  /\ client' = got.r.c
           /\ trace' = [op |-> "main_receiver", outcome |-> got.r.outcome, window |-> NoWindow,
                        calls |-> got.r.calls, at |-> cell.now]
           /\ cell' = [cell EXCEPT !.panicked = (got.r.outcome = "panic"),
                                   !.channel = <<>>, !.idle = got.idle, !.todo = todo,
                                   !.phase = PhaseAfter(todo, got.idle),
                                   !.ran = @ \o RanIn(got.r.calls)]
    /\ UNCHANGED <<text_vars, thread_vars, x11_vars>>

\* lines 352-366: the source of the X connection is dispatched: process_x11_events
\* handles every event that can be read
x11_source(cb) ==
    /\ Running
    /\ cell.phase = "sources" /\ "x11" \in cell.todo
    /\ LET r == HandleAll(client, cell.xqueue, cell.now, cb)
           todo == cell.todo \ {"x11"}
       IN  /\ client' = r.c
           /\ trace' = [op |-> "process_x11_events", outcome |-> r.outcome, window |-> NoWindow,
                        calls |-> r.calls, at |-> cell.now]
           /\ cell' = [cell EXCEPT !.panicked = (r.outcome = "panic"),
                                   !.xqueue = <<>>, !.unhandled = 0, !.todo = todo,
                                   !.phase = PhaseAfter(todo, cell.idle)]
    /\ UNCHANGED <<text_vars, thread_vars, x11_vars>>

\* the loop runs its first idle callback (229-231: the runnable runs)
run_idle ==
    /\ Running
    /\ cell.phase = "idles" /\ cell.idle # <<>>
    /\ LET r == RunAll(client, <<Head(cell.idle)>>, cell.borrowed) IN
       /\ client' = r.c
       /\ trace' = [op |-> "idle", outcome |-> r.outcome, window |-> NoWindow,
                    calls |-> r.calls, at |-> cell.now]
       /\ cell' = [cell EXCEPT !.panicked = (r.outcome = "panic"),
                               !.idle = Tail(@), !.ran = @ \o RanIn(r.calls),
                               !.phase = PhaseAfter({}, Tail(cell.idle))]
    /\ UNCHANGED <<text_vars, thread_vars, x11_vars>>

\* the last Rc of the client is dropped; the windows keep their weak pointers
drop_client ==
    /\ Running
    /\ cell.phase = "none"
    /\ cell' = [cell EXCEPT !.alive = FALSE]
    /\ trace' = [NoTrace EXCEPT !.op = "drop_client"]
    /\ UNCHANGED <<text_vars, thread_vars, x11_vars, client>>

\* wayland/client.rs 81-83: a window asks the client for a serial through its weak
\* pointer: upgrade().unwrap(), then borrow()
get_serial ==
    /\ cell.created /\ ~cell.panicked /\ ~cell.hung
    /\ cell.platform = "wayland"
    /\ Finish("get_serial", NoWindow,
              IF cell.alive /\ ~cell.borrowed THEN Done(client, <<>>) ELSE Panic(client, <<>>))
    /\ UNCHANGED <<text_vars, thread_vars, x11_vars>>

\* the refresh timers of the windows, over the display modes
NextTimer ==
    \/ \E xim \in BOOLEAN : new(xim)
    \/ \E d \in {10000, 40000} : Tick(d)
    \/ \E mode \in Modes : open_window(1, mode)
    \/ refresh_timer(1)
    \/ drop_window(1)
    \/ destroy_window(1)

\* the display mode that gives the 16 ms of line 1428
FallbackMode == [dot_clock |-> 0, htotal |-> 250, vtotal |-> 100]

\* a display mode with a refresh rate
GoodModes == {mode \in Modes : mode_refresh_rate(mode).outcome = "Ok"
                               /\ mode_refresh_rate(mode).micros > 0}

\* the windows, the focus events and the cursor styles
NextFocus ==
    \/ \E xim \in BOOLEAN : new(xim)
    \/ \E w \in WindowIds, mode \in GoodModes : open_window(w, mode)
    \/ \E w \in WindowIds : drop_window(w)
    \/ \E w \in WindowIds : destroy_window(w)
    \/ \E kind \in {"FocusIn", "FocusOut", "XinputEnter", "XinputLeave"}, w \in WindowIds,
          cb \in Callbacks : handle_event(Event(kind, w), cb)
    \/ \E style \in CursorStyles, cursor, reply \in BOOLEAN :
          set_cursor_style(style, cursor, reply)

\* at most this many clicks are counted
MaxClicks == 3

\* the button events
Presses ==
    {[Event("XinputButtonPress", w) EXCEPT !.position = position, !.button = button] :
        w \in WindowIds, position \in Places, button \in BOOLEAN}
Releases ==
    {[Event("XinputButtonRelease", w) EXCEPT !.button = button] :
        w \in WindowIds, button \in BOOLEAN}

\* presses and releases of the buttons over time
NextClicks ==
    \/ new(FALSE)
    \/ \E d \in {100000, DOUBLE_CLICK_INTERVAL} : Tick(d)
    \/ open_window(1, FallbackMode)
    \/ destroy_window(1)
    \/ \E e \in Presses : client.current_count < MaxClicks /\ handle_event(e, Quiet)
    \/ \E e \in Releases : handle_event(e, Quiet)

\* the values of a scroll valuator, multiples of the increment
AxisValues == {NoScroll} \cup {SomeScroll(v * ScrollIncrement) : v \in {0, 1, 3}}

Motions ==
    {[Event("XinputMotion", w) EXCEPT !.moved = moved, !.axis_x = x, !.axis_y = y,
                                       !.shift = shift] :
        w \in WindowIds, moved \in BOOLEAN, x \in AxisValues, y \in AxisValues,
        shift \in BOOLEAN}

\* the pointer moves, scrolls, enters and leaves
NextScroll ==
    \/ new(FALSE)
    \/ open_window(1, FallbackMode)
    \/ destroy_window(1)
    \/ \E e \in Motions : handle_event(e, Quiet)
    \/ \E kind \in {"XinputEnter", "XinputLeave"}, normal \in BOOLEAN :
          handle_event([Event(kind, 1) EXCEPT !.normal = normal], Quiet)

\* the events that reach the input method; the press is of a button button_of_key
\* does not know, which stops the handler after its input method part (838)
ImeEvents ==
    {[Event(kind, w) EXCEPT !.button = FALSE] :
        kind \in {"FocusIn", "FocusOut", "KeyPress", "XinputButtonPress"}, w \in WindowIds}

\* the input method: events through the XIM filter, focus, and the windows
NextIme ==
    \/ \E xim \in BOOLEAN : new(xim)
    \/ \E w \in WindowIds : open_window(w, FallbackMode)
    \/ \E w \in WindowIds : destroy_window(w)
    \/ drop_window(1)
    \/ \E e \in ImeEvents, reenter \in Reentries, xim \in XimReplies :
          dispatch(e, [Quiet EXCEPT !.reenter = reenter], xim)
    \/ update_ime_position

\* the event loop of the X11 client: runnables and X events
NextEventLoop ==
    \/ new(FALSE)
    \/ run
    \/ open_window(1, FallbackMode)
    \/ \E reenter \in {"none", "with_common"} : spawn(reenter)
    \/ \E kind \in {"KeyPress", "KeyRelease"} : XServerQueues(Event(kind, 1))
    \/ poll
    \/ main_receiver
    \/ x11_source(Quiet)
    \/ run_idle

\* the clients of both platforms, their loops, and the calls that windows make
\* through their weak pointers
NextClient ==
    \/ \E xim \in BOOLEAN : new(xim)
    \/ wayland_new
    \/ run
    \/ drop_client
    \/ cell.platform = "x11" /\ open_window(1, FallbackMode)
    \/ \E reenter \in {"none", "with_common"} : spawn(reenter)
    \/ \E kind \in {"ClientMessage", "KeyPress"} : XServerQueues(Event(kind, 1))
    \/ poll
    \/ main_receiver
    \/ \E cb \in Callbacks : x11_source(cb)
    \/ run_idle
    \/ cell.platform = "x11" /\ drop_window(1)
    \/ cell.platform = "x11" /\ update_ime_position
    \/ get_serial

----------------------------------------------------------------------------
(* The specification *)

Init ==
    /\ memory_source = <<>>
    /\ loaded_fonts_store = EmptyMap
    /\ font_ids_by_family_cache = EmptyMap
    /\ result = [op |-> "new", outcome |-> "Ok"]
    /\ watched = NotWatching
    /\ lock = [writer |-> NoThread, readers |-> {}]
    /\ calls = [t \in Threads |-> IdleCall]
    /\ history = [assigned |-> {}, returned |-> {}]
    /\ xcb_connection = <<>>
    /\ events = <<>>
    /\ windows_to_refresh = {}
    /\ last_key_release = NoEvent
    /\ last_key_press = NoEvent
    /\ x11_pc = "idle"
    /\ polled = <<>>
    /\ dispatched = <<>>
    /\ client = NoClientState
    /\ cell = NoCell
    /\ trace = NoTrace

\* one call of each read-only operation, to interleave with resolution
ProbeParams == [font_id |-> 0, glyph_id |-> 1, font_size |-> 16, scale_factor |-> 1,
                is_emoji |-> FALSE]
ProbeRuns == <<[len |-> 1, font_id |-> 0]>>

Next ==
    \/ \E fonts \in AddInputs : add_fonts(fonts)
    \/ \E req \in Requests : font_id(req[1], req[2], req[3], FALSE)
    \/ raster_bounds(ProbeParams)
    \/ \E b \in TargetBounds(loaded_fonts_store, ProbeParams) :
          rasterize_glyph(ProbeParams, b, TRUE)
    \/ layout_line(<<"A">>, 16, ProbeRuns)

Spec == Init /\ [][Next]_vars

----------------------------------------------------------------------------
(* Resolution with one successful font_id call remembered, to compare later calls
   of the same request with it *)

IdemRequests ==
    {req \in Requests : req[1] \in {".SystemUIFont", "sans-serif", "Mixed"}}

NextIdem ==
    \/ \E fonts \in AddInputs : add_fonts(fonts)
    \/ \E req \in IdemRequests, watch \in BOOLEAN : font_id(req[1], req[2], req[3], watch)
    \/ raster_bounds(ProbeParams)
    \/ \E b \in TargetBounds(loaded_fonts_store, ProbeParams) :
          rasterize_glyph(ProbeParams, b, TRUE)
    \/ layout_line(<<"A">>, 16, ProbeRuns)

SpecIdem == Init /\ [][NextIdem]_vars

----------------------------------------------------------------------------
(* Resolution of the sans-serif family over styles and weights, with the family
   embedded in any order or left to the system *)

FamilyAddInputs ==
    {s \in UNION {[1..n -> FamilyFaces] : n \in 1..MaxAdd} :
        \A i, j \in 1..Len(s) : s[i] = s[j] => i = j}

FamilyRequests ==
    {<<"sans-serif", style, weight>> :
        style \in {"Normal", "Italic"}, weight \in {300, 400, 520, 550, 700}}
    \cup {<<".SystemUIFont", "Normal", 400>>}

NextFamily ==
    \/ \E fonts \in FamilyAddInputs : add_fonts(fonts)
    \/ \E req \in FamilyRequests : font_id(req[1], req[2], req[3], FALSE)

SpecFamily == Init /\ [][NextFamily]_vars

----------------------------------------------------------------------------
(* Every operation of the text system, the queries over known and unknown faces
   and glyphs, with one resolved Face Id remembered *)

QueryIds == {0, 1, 9}
QueryGlyphs == {1, 4, 7}
QueryParams ==
    [font_id : QueryIds, glyph_id : {1, 7}, font_size : {16}, scale_factor : {1},
     is_emoji : {FALSE}]
QueryRuns == {<<>>} \cup {<<[len |-> 1, font_id |-> id]>> : id \in QueryIds}
    \cup {<<[len |-> 1, font_id |-> 0], [len |-> 1, font_id |-> id]>> : id \in QueryIds}

NextQueries ==
    \/ \E fonts \in {<<"TestFont">>, <<Malformed>>} : add_fonts(fonts)
    \/ \E req \in {<<"TestFont", "Normal", 400>>, <<"sans-serif", "Normal", 700>>},
          watch \in BOOLEAN : font_id(req[1], req[2], req[3], watch)
    \/ \E id \in QueryIds : font_metrics(id)
    \/ \E id \in QueryIds, g \in QueryGlyphs : typographic_bounds(id, g)
    \/ \E id \in QueryIds, g \in QueryGlyphs : advance(id, g)
    \/ \E id \in QueryIds, ch \in {"A", "B"} : glyph_for_char(id, ch)
    \/ \E params \in QueryParams : raster_bounds(params)
    \/ \E params \in QueryParams : \E b \in TargetBounds(loaded_fonts_store, params) :
          rasterize_glyph(params, b, TRUE)
    \/ \E text \in {<<"A", "B">>, <<"A", "x">>}, runs \in QueryRuns : layout_line(text, 16, runs)

SpecQueries == Init /\ [][NextQueries]_vars

----------------------------------------------------------------------------
(* Rasterization over all its inputs, on a store that holds the sans-serif family *)

RasterParams ==
    [font_id : {1, 9}, glyph_id : {1, 2, 5, 7}, font_size : {16}, scale_factor : {1, 2},
     is_emoji : BOOLEAN]

NextRaster ==
    \/ font_id("sans-serif", "Normal", 700, FALSE)
    \/ \E params \in RasterParams : raster_bounds(params)
    \/ \E params \in RasterParams, dbg \in BOOLEAN :
          \E b \in TargetBounds(loaded_fonts_store, params) : rasterize_glyph(params, b, dbg)

SpecRaster == Init /\ [][NextRaster]_vars

----------------------------------------------------------------------------
(* Shaping over all its inputs, on a store that holds TestFont and the sans-serif family *)

LayoutTexts ==
    {<<>>, <<"A">>, <<"A", "B">>, <<"B", "A">>, <<"e1", "e2">>, <<"A", "x">>, <<"x", "A">>}
LayoutRunInputs ==
    UNION {[1..n -> [len : 0..2, font_id : {0, 1, 9}]] : n \in 0..2}

NextLayout ==
    \/ add_fonts(<<"TestFont">>)
    \/ \E req \in {<<"TestFont", "Normal", 400>>, <<"sans-serif", "Normal", 700>>} :
          font_id(req[1], req[2], req[3], FALSE)
    \/ \E text \in LayoutTexts, runs \in LayoutRunInputs : layout_line(text, 16, runs)

SpecLayout == Init /\ [][NextLayout]_vars

----------------------------------------------------------------------------
(* Two threads calling the text system, each call a sequence of steps under the lock *)

SpecThreads == Init /\ [][NextThreads]_vars

----------------------------------------------------------------------------
(* The X server sending events while process_x11_events runs *)

SpecX11 == Init /\ [][NextX11]_vars

----------------------------------------------------------------------------
(* The windows of the X11 client and their refresh timers *)

SpecTimer == Init /\ [][NextTimer]_vars

SpecFocus == Init /\ [][NextFocus]_vars

SpecClicks == Init /\ [][NextClicks]_vars

SpecScroll == Init /\ [][NextScroll]_vars

SpecIme == Init /\ [][NextIme]_vars

\* the loop keeps turning: the client is built and run, and a loop that can poll,
\* dispatch a ready source or run an idle callback does so
SpecEventLoop ==
    /\ Init /\ [][NextEventLoop]_vars
    /\ WF_vars(new(FALSE)) /\ WF_vars(run) /\ WF_vars(poll)
    /\ WF_vars(main_receiver) /\ WF_vars(x11_source(Quiet)) /\ WF_vars(run_idle)

SpecClient == Init /\ [][NextClient]_vars

----------------------------------------------------------------------------
(* Claims about family resolution *)

store == loaded_fonts_store
cache == font_ids_by_family_cache

\* a face the validity filter is documented to reject: no glyph for 'm' and not the
\* emoji font
IsUnusable(f) == ~FaceInfo(f).has_m /\ FaceInfo(f).postscript_name # "NotoColorEmoji"

CachedIds == UNION {Range(cache[fam]) : fam \in DOMAIN cache}

\* C1: a face with no glyph for 'm' whose name is not NotoColorEmoji is in no
\* family's candidate list, and resolving a family that has only such faces fails
\* with NoMatch.
C1_UnusableFaceNeverCandidate ==
    /\ \A id \in CachedIds : id \in DOMAIN store => ~IsUnusable(store[id])
    /\ (result.op = "font_id" /\ result.outcome = "Ok") => ~IsUnusable(store[result.id])
    /\ (result.op = "font_id" /\ result.enumerated)
          => LET fonts == SelectFamily(memory_source, NormalizeName(result.family)).fonts IN
             (\A i \in 1..Len(fonts) : IsUnusable(fonts[i])) => result.outcome = "NoMatch"

\* C2: the keys of the store are exactly 0..n-1 and every id the cache holds is a key
\* of the store, held once; a step never removes or replaces an entry of the store,
\* and the ids it adds are the numbers from the old size of the store upwards.
C2_KeysContiguous ==
    /\ DOMAIN store = 0..(Cardinality(DOMAIN store) - 1)
    /\ CachedIds \subseteq DOMAIN store
    /\ \A f1, f2 \in DOMAIN cache : \A i \in 1..Len(cache[f1]), j \in 1..Len(cache[f2]) :
          cache[f1][i] = cache[f2][j] => (f1 = f2 /\ i = j)
    /\ (result.op = "font_id" /\ result.outcome = "Ok") => result.id \in DOMAIN store

C2_StoreStep ==
    /\ \A id \in DOMAIN store : id \in DOMAIN store' /\ store'[id] = store[id]
    /\ \A id \in DOMAIN store' \ DOMAIN store : id >= Cardinality(DOMAIN store)

C2_FaceIdsUniqueAndStable == []C2_KeysContiguous /\ [][C2_StoreStep]_vars

C2_Witness ==
    /\ Cardinality(DOMAIN store) >= 4
    /\ Cardinality(DOMAIN cache) >= 2
    /\ memory_source # <<>>
    /\ result.op = "font_id" /\ result.outcome = "Ok" /\ result.id >= 3

\* C3: once a font_id call has returned a Face Id, every later font_id call with the
\* same family, style and weight returns that Face Id, whatever was called between.
C3_ResolveIdempotent ==
    (/\ result.op = "font_id"
     /\ watched # NotWatching
     /\ result.family = watched.family
     /\ result.style = watched.style
     /\ result.weight = watched.weight)
        => (result.outcome = "Ok" /\ result.id = watched.id)

C3_Witness ==
    /\ result.op = "font_id" /\ result.cache_hit
    /\ watched # NotWatching
    /\ result.family = watched.family
    /\ result.style = watched.style
    /\ result.weight = watched.weight
    /\ result.family = "sans-serif"
    /\ memory_source # <<>>
    /\ Cardinality(DOMAIN cache) >= 2

\* C4: the cache entry of a family is created by the first resolve that enumerates
\* the family, so that no later resolve of the name enumerates the sources again:
\* after a font_id call that enumerated, the family is in the cache.
C4_EntryCreatedByFirstEnumeration ==
    (result.op = "font_id" /\ result.enumerated) => result.family \in DOMAIN cache

\* C5: no two Face Ids of the store refer to the same face.
C5_EachFaceLoadedOnce ==
    \A id1, id2 \in DOMAIN store : store[id1] = store[id2] => id1 = id2

\* a font_id call that returned a Face Id, the face of the id, and the faces the
\* call chose among: the candidates of the family
Resolved == result.op = "font_id" /\ result.outcome = "Ok"
Chosen == FaceInfo(store[result.id])
Candidates == {FaceInfo(store[id]) : id \in Range(cache[result.family])}

\* the candidates the steps before the weight leave: of the stretch of the chosen
\* face, and among those of its style
OfChosenStretch == {c \in Candidates : c.stretch = Chosen.stretch}
OfChosenStyle == {c \in OfChosenStretch : c.style = Chosen.style}

\* C17 as stated: the face returned has the requested slant when a candidate has
\* it, and no candidate of its slant is nearer in weight to the request.
C17_SlantThenNearestWeight ==
    Resolved =>
        /\ (\E c \in Candidates : c.style = result.style) => Chosen.style = result.style
        /\ \A c \in Candidates :
              c.style = Chosen.style
                  => Abs(Chosen.weight - result.weight) <= Abs(c.weight - result.weight)

\* C17, amended: font_id matches as CSS does. It keeps the candidates of normal
\* stretch when there are any; among the candidates of the stretch kept, a face of
\* the requested slant when there is one; among those, the requested weight when a
\* face has it, else for a request above 500 the lightest heavier face if there is
\* one and the heaviest lighter face if not, and for a request below 400 the
\* heaviest lighter face if there is one and the lightest heavier face if not. With
\* Regular (400) and Bold (700) a request of 700 gives Bold.
C17_CssMatching ==
    Resolved =>
        LET have == {c.weight : c \in OfChosenStyle}
            heavier == {w \in have : w > result.weight}
            lighter == {w \in have : w < result.weight}
        IN  /\ Chosen \in Candidates
            /\ (\E c \in Candidates : c.stretch = 100) => Chosen.stretch = 100
            /\ (\E c \in OfChosenStretch : c.style = result.style)
                  => Chosen.style = result.style
            /\ result.weight \in have => Chosen.weight = result.weight
            /\ (result.weight \notin have /\ result.weight > 500)
                  => Chosen.weight = IF heavier # {} THEN SetMin(heavier) ELSE SetMax(lighter)
            /\ (result.weight \notin have /\ result.weight < 400)
                  => Chosen.weight = IF lighter # {} THEN SetMax(lighter) ELSE SetMin(heavier)
            /\ (/\ result.style = "Normal" /\ result.weight = 700
                /\ \E c \in Candidates : c.style = "Normal" /\ c.stretch = 100 /\ c.weight = 700)
                  => (Chosen.style = "Normal" /\ Chosen.weight = 700)

\* the request of 520 on Regular, Bold and an Italic: Bold, 180 away, though Regular
\* is 120 away
C17_Witness ==
    /\ Resolved
    /\ result.style = "Normal" /\ result.weight = 520
    /\ {c.weight : c \in OfChosenStyle} = {400, 700}
    /\ \E c \in Candidates : c.style = "Italic"
    /\ Chosen.weight = 700

\* the place in the list of candidates of the first face of weight w, of upright
\* style and normal stretch; 0 when the list has none
FirstOfWeight(w) ==
    LET ids == cache[result.family]
        at == {i \in 1..Len(ids) :
                 LET c == FaceInfo(store[ids[i]]) IN
                 c.weight = w /\ c.style = "Normal" /\ c.stretch = 100}
    IN  IF at = {} THEN 0 ELSE SetMin(at)

\* a request of upright 550 that returned a face, on candidates of which the upright
\* ones of normal stretch have the weights 400 and 700: both are 150 away
TiedRequest ==
    /\ Resolved
    /\ result.style = "Normal" /\ result.weight = 550
    /\ FirstOfWeight(400) > 0 /\ FirstOfWeight(700) > 0 /\ FirstOfWeight(550) = 0

FamilyOf(family) == SelectFamily(memory_source, NormalizeName(family)).fonts

\* C19: a font_id call on a family whose list of candidates is empty returns NoMatch
\* and no Face Id: the call that enumerates the family and finds every face of it
\* rejected, which leaves the empty list in the cache, and every call that finds the
\* empty list there.
C19_EmptyFamilyNoMatch ==
    /\ (/\ result.op = "font_id"
        /\ result.family \in DOMAIN cache
        /\ cache[result.family] = <<>>)
          => (result.outcome = "NoMatch" /\ result.id = -1)
    /\ (/\ result.op = "font_id"
        /\ result.enumerated
        /\ \A i \in 1..Len(FamilyOf(result.family)) :
              /\ FaceInfo(FamilyOf(result.family)[i]).loadable
              /\ is_rejected(FamilyOf(result.family)[i]))
          => /\ result.outcome = "NoMatch" /\ result.id = -1
             /\ result.family \in DOMAIN cache
             /\ cache[result.family] = <<>>

\* a later call on the family: the empty list comes from the cache
C19_Witness ==
    /\ result.op = "font_id"
    /\ result.cache_hit
    /\ cache[result.family] = <<>>
    /\ result.outcome = "NoMatch"
    /\ store # EmptyMap

\* the faces of a family that load_family loads: those before the first that does
\* not load
RECURSIVE LoadedPrefix(_)
LoadedPrefix(fonts) ==
    IF fonts = <<>> THEN <<>>
    ELSE IF ~FaceInfo(Head(fonts)).loadable THEN <<>>
    ELSE <<Head(fonts)>> \o LoadedPrefix(Tail(fonts))

\* and of those, the faces the filter lets through
RECURSIVE AcceptedOf(_)
AcceptedOf(fonts) ==
    IF fonts = <<>> THEN <<>>
    ELSE (IF is_rejected(Head(fonts)) THEN <<>> ELSE <<Head(fonts)>>) \o AcceptedOf(Tail(fonts))

C20_NoRejectedInStore ==
    /\ \A id \in DOMAIN store : ~is_rejected(store[id])
    /\ \A fam \in DOMAIN cache : \A k \in 1..(Len(cache[fam]) - 1) :
          cache[fam][k + 1] = cache[fam][k] + 1

C20_EnumerationStep ==
    (result'.op = "font_id" /\ result'.enumerated)
        => LET accepted == AcceptedOf(LoadedPrefix(FamilyOf(result'.family)))
               n == Cardinality(DOMAIN store)
           IN  /\ Cardinality(DOMAIN store') = n + Len(accepted)
               /\ \A k \in 1..Len(accepted) :
                     (n + k - 1) \in DOMAIN store' /\ store'[n + k - 1] = accepted[k]
               /\ result'.outcome \in {"Ok", "NoMatch"}
                     => cache'[result'.family] = [k \in 1..Len(accepted) |-> n + k - 1]

\* C20: no face the filter rejects is in the store, and the ids of a list of
\* candidates are consecutive; a font_id call that enumerates a family adds to the
\* store the faces of the family the filter lets through and no other, with the ids
\* from the old size of the store upwards, one after the other, so that a rejected
\* face takes no id.
C20_RejectedFaceTakesNoId == []C20_NoRejectedInStore /\ [][C20_EnumerationStep]_vars

\* a family enumerated with a rejected face between two accepted ones, on a store
\* that held faces before
C20_Witness ==
    /\ result.op = "font_id" /\ result.enumerated /\ result.outcome = "Ok"
    /\ LET fonts == FamilyOf(result.family) IN
        /\ Len(fonts) = 3
        /\ ~is_rejected(fonts[1]) /\ is_rejected(fonts[2]) /\ ~is_rejected(fonts[3])
        /\ Len(cache[result.family]) = 2
        /\ cache[result.family][1] >= 1
        /\ cache[result.family][2] = cache[result.family][1] + 1
        /\ Cardinality(DOMAIN store) = cache[result.family][2] + 1

\* s is the start of t
IsPrefix(s, t) == Len(s) <= Len(t) /\ SubSeq(t, 1, Len(s)) = s

C21_Step ==
    /\ result'.op # "font_id" => (store' = store /\ cache' = cache)
    /\ result'.op = "add_fonts" => IsPrefix(memory_source, memory_source')
    /\ result'.op # "add_fonts" => memory_source' = memory_source

\* C21: a step that is not a font_id call leaves the store and the cache as they
\* are: add_fonts only puts fonts at the end of the in-memory source, and
\* font_metrics, advance, typographic_bounds, glyph_for_char, layout_line,
\* raster_bounds and rasterize_glyph change nothing but what they return.
C21_OnlyResolutionChangesStore == [][C21_Step]_vars

\* fonts added to the source and none of them in the store, which holds other faces
C21_Witness ==
    /\ result.op = "add_fonts" /\ result.outcome = "Ok"
    /\ memory_source # <<>>
    /\ store # EmptyMap
    /\ \A i \in 1..Len(memory_source), id \in DOMAIN store : memory_source[i] # store[id]

\* the faces of the family of a name in the in-memory source and in the system
\* source
InMemory(family) == Range(SelectSeqBy(memory_source, NormalizeName(family)))
InSystem(family) == Range(SelectSeqBy(SystemFaces, NormalizeName(family)))

\* where a font_id call that enumerates the family has to take the faces from
SourceOf(family) == IF InMemory(family) # {} THEN InMemory(family) ELSE InSystem(family)

C28_CandidatesFromOneSource ==
    (result.op = "font_id" /\ result.enumerated /\ result.family \in DOMAIN cache)
        => \A i \in 1..Len(cache[result.family]) :
              store[cache[result.family][i]] \in SourceOf(result.family)

C28_EnumerationStep ==
    (result'.op = "font_id" /\ result'.enumerated)
        => \A id \in DOMAIN store' \ DOMAIN store : store'[id] \in SourceOf(result'.family)

\* C28: a font_id call that enumerates a family the in-memory source has loads, and
\* takes for candidates, faces of the in-memory source only; it takes the faces of
\* the system source only when the in-memory source has no family of the name.
C28_MemorySourceFirst == []C28_CandidatesFromOneSource /\ [][C28_EnumerationStep]_vars

\* sans-serif resolved to the embedded face, with the system faces of the same
\* family in the store from a call made under another name
C28_Witness ==
    /\ result.op = "font_id" /\ result.enumerated /\ result.outcome = "Ok"
    /\ result.family = "sans-serif"
    /\ InMemory(result.family) # {} /\ InSystem(result.family) # {}
    /\ store[result.id] \in InMemory(result.family)
    /\ \E id \in DOMAIN store : store[id] \in InSystem(result.family)

----------------------------------------------------------------------------
(* Claims about shaping *)

\* C6: layout_line returns a layout, and does not panic, for every text and every
\* list of runs on registered faces.
C6_LayoutLineNeverPanics ==
    (/\ result.op = "layout_line"
     /\ \A i \in 1..Len(result.font_runs) : result.font_runs[i].font_id \in DOMAIN store)
        => result.outcome = "Ok"

\* the sum of the lengths of the first n runs
RECURSIVE SumLens(_, _)
SumLens(font_runs, n) ==
    IF n = 0 THEN 0 ELSE SumLens(font_runs, n - 1) + font_runs[n].len

\* the bytes of the slices, one after the other
RECURSIVE ConcatSlices(_, _)
ConcatSlices(text, slices) ==
    IF slices = <<>> THEN <<>>
    ELSE SubSeq(text, Head(slices)[1] + 1, Head(slices)[2]) \o ConcatSlices(text, Tail(slices))

LaidOut == result.op = "layout_line"
Returned == LaidOut /\ result.outcome = "Ok"

\* every run is on a face of the store
RunsRegistered ==
    \A i \in 1..Len(result.font_runs) : result.font_runs[i].font_id \in DOMAIN store

\* the lengths of the runs sum to the length of the text
RunsCoverText == SumLens(result.font_runs, Len(result.font_runs)) = Len(result.text)

\* C11: for runs on registered faces whose lengths sum to the length of the text,
\* layout_line shapes every run, run i over the bytes from the sum of the lengths of
\* the runs before it to that sum plus its own length, and the slices put together
\* are the text.
C11_SlicesPartitionText ==
    (LaidOut /\ RunsRegistered /\ RunsCoverText)
        => /\ Len(result.slices) = Len(result.font_runs)
           /\ \A i \in 1..Len(result.slices) :
                 result.slices[i] = <<SumLens(result.font_runs, i - 1),
                                      SumLens(result.font_runs, i)>>
           /\ ConcatSlices(result.text, result.slices) = result.text

\* C12: a layout that layout_line returns has len equal to the length in bytes of
\* the whole text, whatever the runs consumed of it; the call with the empty text
\* and no run returns a layout with no shaped run, width 0 and len 0.
C12_LenIsTextLength ==
    /\ Returned => result.layout.len = Len(result.text)
    /\ (LaidOut /\ result.text = <<>> /\ result.font_runs = <<>>)
          => /\ result.outcome = "Ok"
             /\ result.layout.runs = <<>>
             /\ result.layout.width = 0
             /\ result.layout.len = 0

C12_Witness ==
    /\ Returned
    /\ Len(result.text) = 2
    /\ SumLens(result.font_runs, Len(result.font_runs)) = 1
    /\ Len(result.layout.runs) = 1
    /\ result.layout.len = 2

\* every run has at least one byte
RunsNonEmpty == \A i \in 1..Len(result.font_runs) : result.font_runs[i].len >= 1

\* the face of run i, and the byte of the text a glyph of run i comes from
RunFace(i) == store[result.font_runs[i].font_id]
ByteOfGlyph(i, glyph) == result.text[SumLens(result.font_runs, i - 1) + glyph.index + 1]

\* C13: layout_line on a text split into k runs of at least one byte, on registered
\* faces, returns k shaped runs, the i-th with the face id of run i, and the index of
\* every glyph is the offset in its own run of the character the glyph is of.
C13_OneShapedRunPerRun ==
    (LaidOut /\ RunsRegistered /\ RunsCoverText /\ RunsNonEmpty)
        => /\ result.outcome = "Ok"
           /\ Len(result.layout.runs) = Len(result.font_runs)
           /\ \A i \in 1..Len(result.layout.runs) :
                 /\ result.layout.runs[i].font_id = result.font_runs[i].font_id
                 /\ \A j \in 1..Len(result.layout.runs[i].glyphs) :
                       LET glyph == result.layout.runs[i].glyphs[j] IN
                       /\ glyph.index \in 0..(result.font_runs[i].len - 1)
                       /\ glyph.id = GlyphForChar(RunFace(i), ByteOfGlyph(i, glyph))

\* what the engine shapes for run i of a call that returned
RunInfos(i) ==
    shape(RunFace(i), SubSeq(result.text, result.slices[i][1] + 1, result.slices[i][2]))

\* the runs, by their number, for which the engine shaped something, from run i on
RECURSIVE ShapedFrom(_)
ShapedFrom(i) ==
    IF i > Len(result.font_runs) THEN <<>>
    ELSE (IF RunInfos(i) # <<>> THEN <<i>> ELSE <<>>) \o ShapedFrom(i + 1)

\* the glyphs of run i, by their number, that are not the missing glyph, from k on
RECURSIVE EmittedFrom(_, _)
EmittedFrom(i, k) ==
    IF k > Len(RunInfos(i)) THEN <<>>
    ELSE (IF RunInfos(i)[k].codepoint # 0 THEN <<k>> ELSE <<>>) \o EmittedFrom(i, k + 1)

\* what a shaped glyph moves the pen by, in 1/64 pixel: the advance the engine
\* reports, over 64 pixels, for the missing glyph, the advance of the face at the
\* font size for every other glyph
InfoAdvance(i, info) ==
    IF info.codepoint = 0 THEN info.x_advance
    ELSE (FontAdvance(RunFace(i), info.codepoint) * result.font_size * 64)
            \div FaceMetrics(RunFace(i)).units_per_em

\* the pen after the first n shaped glyphs of run i, from the start of the run
RECURSIVE SumAdvances(_, _)
SumAdvances(i, n) ==
    IF n = 0 THEN 0 ELSE SumAdvances(i, n - 1) + InfoAdvance(i, RunInfos(i)[n])

\* the pen before run i: what the runs before it moved it by
RECURSIVE PenAtRun(_)
PenAtRun(i) ==
    IF i = 1 THEN 0 ELSE PenAtRun(i - 1) + SumAdvances(i - 1, Len(RunInfos(i - 1)))

\* C14: in a layout that layout_line returns no glyph has id 0: the glyphs of a
\* shaped run are the glyphs the engine shaped for the run that are not the missing
\* glyph, in order, those after a missing glyph included, and the width of the line
\* counts, for every missing glyph, the advance the engine reports over 64.
C14_NoNotdefGlyph ==
    Returned =>
        /\ Len(result.layout.runs) = Len(ShapedFrom(1))
        /\ \A r \in 1..Len(result.layout.runs) :
              LET i == ShapedFrom(1)[r]
                  glyphs == result.layout.runs[r].glyphs
              IN  /\ Len(glyphs) = Len(EmittedFrom(i, 1))
                  /\ \A j \in 1..Len(glyphs) :
                        /\ glyphs[j].id # 0
                        /\ glyphs[j].id = RunInfos(i)[EmittedFrom(i, 1)[j]].codepoint
        /\ result.layout.width = PenAtRun(Len(result.font_runs) + 1)

C14_Witness ==
    /\ Returned
    /\ result.text = <<"B", "A">>
    /\ Len(result.font_runs) = 1 /\ result.font_runs[1].len = 2
    /\ RunInfos(1)[1].codepoint = 0
    /\ Len(result.layout.runs[1].glyphs) = 1
    /\ result.layout.runs[1].glyphs[1].id = 1
    /\ result.layout.runs[1].glyphs[1].x = RunInfos(1)[1].x_advance

\* C15: in a layout that layout_line returns every glyph has y = 0 and x = the pen
\* moved by all the shaped glyphs, emitted or skipped, of the runs before its run
\* and by those before it in its run; the width is the pen after the last run.
C15_PenAccumulates ==
    Returned =>
        /\ \A r \in 1..Len(result.layout.runs) :
              LET i == ShapedFrom(1)[r]
                  glyphs == result.layout.runs[r].glyphs
              IN  \A j \in 1..Len(glyphs) :
                    /\ glyphs[j].y = 0
                    /\ glyphs[j].x = PenAtRun(i) + SumAdvances(i, EmittedFrom(i, 1)[j] - 1)
        /\ result.layout.width = PenAtRun(Len(result.font_runs) + 1)

C15_Witness ==
    /\ Returned
    /\ Len(result.layout.runs) = 2
    /\ result.layout.runs[1].glyphs = <<>>
    /\ Len(result.layout.runs[2].glyphs) = 1
    /\ result.layout.runs[2].glyphs[1].x > 0
    /\ result.layout.width > result.layout.runs[2].glyphs[1].x

\* the greatest of 0 and the values of v over the runs
MaxOverRuns(v(_)) == SetMax({0} \cup {v(i) : i \in 1..Len(result.font_runs)})

RunAscent(i) ==
    (FaceMetrics(RunFace(i)).ascent * result.font_size * 64)
        \div FaceMetrics(RunFace(i)).units_per_em
RunDescent(i) ==
    (Abs(FaceMetrics(RunFace(i)).descent) * result.font_size * 64)
        \div FaceMetrics(RunFace(i)).units_per_em

\* C16: in a layout that layout_line returns the ascent is the greatest, over all
\* the runs of the call, of ascent * font_size / units_per_em of the face of the run,
\* the descent the greatest of |descent| * font_size / units_per_em; a run that gives
\* no glyph counts, and both are 0 when the call has no run.
C16_MetricsAreMaxOverRuns ==
    Returned =>
        /\ result.layout.ascent = MaxOverRuns(RunAscent)
        /\ result.layout.descent = MaxOverRuns(RunDescent)
        /\ result.font_runs = <<>> => (result.layout.ascent = 0 /\ result.layout.descent = 0)

C16_Witness ==
    /\ Returned
    /\ Len(result.font_runs) = 2
    /\ result.font_runs[1].len = 0
    /\ Len(result.layout.runs) = 1
    /\ result.layout.runs[1].font_id = result.font_runs[2].font_id
    /\ RunDescent(1) > RunDescent(2)
    /\ result.layout.descent = RunDescent(1)
    /\ result.layout.ascent = RunAscent(2)
    /\ RunAscent(2) > RunAscent(1)

----------------------------------------------------------------------------
(* Claims about rasterization *)

Rasterized == result.op = "rasterize_glyph" /\ result.outcome = "Ok"

\* C7: a successful rasterize_glyph returns width * height bytes for a glyph that is
\* not a color glyph and 4 * width * height bytes for a color glyph.
C7_BufferLength ==
    Rasterized =>
        Len(result.pixels) =
            result.size.w * result.size.h * (IF result.params.is_emoji THEN 4 ELSE 1)

\* C8: rasterize_glyph returns no result whose size differs from the size of the
\* target bounds: when the canvas and the target differ in size the call panics.
C8_SizeMatchesTarget ==
    /\ Rasterized => (result.size.w = result.glyph_bounds.w
                      /\ result.size.h = result.glyph_bounds.h)
    /\ (/\ result.op = "rasterize_glyph"
        /\ result.canvas
        /\ (result.size.w # result.glyph_bounds.w \/ result.size.h # result.glyph_bounds.h))
          => result.outcome = "panic"

\* C9: rasterize_glyph asks the engine for the bounds of its canvas with the inputs
\* raster_bounds uses for the same request (face, glyph, size, scale, hinting,
\* antialiasing), and gets the bounds raster_bounds reports.
C9_SameBoundsInputs ==
    (result.op = "rasterize_glyph" /\ result.canvas)
        => /\ result.bounds_args = RasterBoundsArgs(result.params)
           /\ result.raster_bounds = RasterBoundsCall(store, result.params).bounds

ZeroArea(b) == b.w = 0 \/ b.h = 0

\* C10: rasterize_glyph with target bounds of no width or no height fails with
\* EmptyBounds, having looked up no face, asked the engine nothing and made no canvas,
\* and returns no buffer.
C10_EmptyBoundsFirst ==
    (result.op = "rasterize_glyph" /\ ZeroArea(result.glyph_bounds))
        => /\ result.outcome = "EmptyBounds"
           /\ ~result.looked_up
           /\ result.bounds_args = NoArgs
           /\ ~result.canvas
           /\ result.pixels = <<>>

C10_Witness ==
    /\ result.op = "rasterize_glyph"
    /\ result.outcome = "EmptyBounds"
    /\ result.glyph_bounds.w = 0 /\ result.glyph_bounds.h # 0
    /\ result.params.font_id \notin DOMAIN store

\* what the engine left in the canvas of the last rasterize_glyph call
EngineBytes ==
    EnginePaint(result.params.glyph_id,
                result.size.w * result.size.h * BytesPerPixel(CanvasFormat(result.params)))

----------------------------------------------------------------------------
(* Claims about the queries on a face *)

\* a query on one face, and the face it asks for
IsQuery == result.op \in {"font_metrics", "typographic_bounds", "advance", "glyph_for_char"}

\* the engine has no advance, or no box, for the glyph of the last query
NoSuchGlyph ==
    \/ ~HasGlyph(store[result.font_id], result.glyph_id)
    \/ (result.op = "advance" /\ FontAdvance(store[result.font_id], result.glyph_id) < 0)

C26_ErrorReturned ==
    (/\ result.op \in {"advance", "typographic_bounds"}
     /\ result.font_id \in DOMAIN store
     /\ NoSuchGlyph)
        => result.outcome = "GlyphLoadingError"

C26_QueryStep ==
    result'.op \in {"advance", "typographic_bounds"} => (store' = store /\ cache' = cache)

\* C26: advance and typographic_bounds on a face of the store, for a glyph the engine
\* cannot resolve, return the error of the engine to the caller, do not panic, and
\* leave the store and the cache as they are.
C26_GlyphErrorIsReturned == []C26_ErrorReturned /\ [][C26_QueryStep]_vars

\* an advance asked of a face of the store for a glyph of its cmap that does not load
C26_Witness ==
    /\ result.op = "advance"
    /\ result.font_id \in DOMAIN store
    /\ HasGlyph(store[result.font_id], result.glyph_id)
    /\ result.outcome = "GlyphLoadingError"
    /\ cache # EmptyMap

\* the last call looked up a face id that is not in the store
LooksUpUnknownFace ==
    \/ IsQuery /\ result.font_id \notin DOMAIN store
    \/ result.op = "raster_bounds" /\ result.params.font_id \notin DOMAIN store
    \/ /\ result.op = "rasterize_glyph"
       /\ ~ZeroArea(result.glyph_bounds)
       /\ result.params.font_id \notin DOMAIN store
    \/ /\ result.op = "layout_line"
       /\ \E i \in 1..Len(result.font_runs) : result.font_runs[i].font_id \notin DOMAIN store

\* C27: a call that looks up a face id that is not in the store panics, whichever
\* the operation; the id a font_id call returned stays in the store, and a query or
\* raster_bounds on an id of the store does not panic, and rasterize_glyph on an id
\* of the store panics at most after the lookup, with its canvas made.
C27_UnknownFacePanics ==
    /\ LooksUpUnknownFace => result.outcome = "panic"
    /\ watched # NotWatching => watched.id \in DOMAIN store
    /\ (IsQuery /\ result.font_id \in DOMAIN store) => result.outcome # "panic"
    /\ (result.op = "raster_bounds" /\ result.params.font_id \in DOMAIN store)
          => result.outcome # "panic"
    /\ (/\ result.op = "rasterize_glyph"
        /\ result.params.font_id \in DOMAIN store
        /\ result.outcome = "panic")
          => result.canvas

\* a query on an unknown id while an id returned before is in the store
C27_Witness ==
    /\ result.op = "glyph_for_char"
    /\ result.font_id \notin DOMAIN store
    /\ result.outcome = "panic"
    /\ watched # NotWatching
    /\ Cardinality(DOMAIN store) >= 4

----------------------------------------------------------------------------
(* Claims about the calls from several threads *)

InCall(t, ops) == calls[t].op \in ops /\ calls[t].pc \notin {"idle", "acquire"}
Waiting(t, ops) == calls[t].op \in ops /\ calls[t].pc = "acquire"

\* a thread inside a call that paints holds no exclusive access
PaintIsShared == \A t \in Threads : InCall(t, PaintOps) => lock.writer # t

\* a thread that waits to read is not kept waiting by a call that paints
PaintBlocksNoReader ==
    \A t, u \in Threads :
        InCall(t, PaintOps) /\ Waiting(u, ReadOps) => CanAcquire(lock, LockMode(calls[u].op))

\* the exclusive access is held by add_fonts and font_id only
WriterMutates == \A t \in Threads : lock.writer = t => calls[t].op \in {"add_fonts", "font_id"}

\* C22: the write lock is held only by add_fonts and font_id; raster_bounds,
\* rasterize_glyph and layout_line run under shared access, so that a thread that
\* waits in font_metrics, typographic_bounds, advance or glyph_for_char can take
\* the lock while another thread is inside one of them.
C22_PaintUnderSharedAccess == PaintIsShared /\ PaintBlocksNoReader /\ WriterMutates

\* from the lookup in the cache to the match, font_id holds the exclusive access
FontIdIsExclusive ==
    \A t \in Threads :
        InCall(t, {"font_id"}) =>
            /\ lock.writer = t /\ lock.readers = {}
            /\ \A u \in Threads \ {t} : ~InCall(u, WriteOps \cup ReadOps)

\* C23: whatever the interleaving of the font_id calls of the threads, no Face Id
\* is inserted in the store for two different faces: from the read of the length
\* of the store to the insertion in the store and in the cache, the thread holds
\* the exclusive access.
C23_OneFacePerId ==
    /\ \A p, q \in history.assigned : p[1] = q[1] => p[2] = q[2]
    /\ FontIdIsExclusive

\* a thread is inserting a face while the other thread, which called font_id too,
\* waits for the lock, and a face was given an id by an earlier call
C23_Witness ==
    \E t, u \in Threads :
        /\ t # u
        /\ calls[t].op = "font_id" /\ calls[t].pc = "inserting"
        /\ Waiting(u, {"font_id"})
        /\ calls[u].family # calls[t].family
        /\ history.assigned # {}
        /\ \A p \in history.assigned : p[1] # calls[t].id

\* a reader can run: its self.0.read() would return
ReaderCanRun == \A op \in ReadOps : CanAcquire(lock, LockMode(op))

\* C24: whenever a reader can run, every Face Id of a list of the cache and every
\* Face Id font_id returned is in the store with a complete handle.
C24_ReadersSeeCompleteFaces ==
    ReaderCanRun =>
        \A id \in CachedIds \cup history.returned : Complete(loaded_fonts_store, id)

\* a reader holds the lock on a face font_id returned and the cache lists
C24_Witness ==
    \E t \in Threads :
        /\ InCall(t, ReadOps) /\ t \in lock.readers
        /\ calls[t].id \in history.returned
        /\ calls[t].id \in CachedIds
        /\ \E u \in Threads : Waiting(u, {"font_id"})

----------------------------------------------------------------------------
(* Claims about process_x11_events *)

\* the i-th event polled is a KeyRelease and the next one polled is the KeyPress of
\* the same key at most RepeatMillis later: the pair the server sends for a key
\* held down
RepeatRelease(i) ==
    /\ i < Len(PolledEvents)
    /\ PolledEvents[i].kind = "KeyRelease"
    /\ PolledEvents[i + 1].kind = "KeyPress"
    /\ PolledEvents[i + 1].detail = PolledEvents[i].detail
    /\ PolledEvents[i + 1].time - PolledEvents[i].time <= RepeatMillis

InRepeatPair(i) == RepeatRelease(i) \/ (i > 1 /\ RepeatRelease(i - 1))

\* how many times the i-th event polled was handed to the dispatch loop
TimesDispatched(i) ==
    Cardinality({j \in 1..Len(dispatched) : dispatched[j].event = PolledEvents[i]})

\* C29: a KeyRelease polled just before the KeyPress of the same key, at most 20 ms
\* earlier, is not dispatched. The formula is the claim for the pairs polled in one
\* batch: it looks at the dispatch of a KeyRelease only if the KeyPress after it
\* was polled by then.
C29_RepeatReleaseNotDispatched ==
    \A i \in 1..Len(PolledEvents) :
        RepeatRelease(i) =>
            \A j \in 1..Len(dispatched) :
                dispatched[j].event = PolledEvents[i] => dispatched[j].seen <= i

\* process_x11_events has returned with nothing left to poll, and no poll failed
Drained ==
    /\ x11_pc = "idle"
    /\ xcb_connection = <<>>
    /\ PolledEvents = polled

\* C30: when process_x11_events has returned with the connection drained, every
\* KeyPress and KeyRelease polled that is in no key-repeat pair was dispatched once,
\* and the events were dispatched in the order of their arrival.
C30_KeyEventsDispatchedOnce ==
    Drained =>
        /\ \A i \in 1..Len(PolledEvents) :
              PolledEvents[i].kind \in KeyKinds /\ ~InRepeatPair(i) => TimesDispatched(i) = 1
        /\ \A j, k \in 1..Len(dispatched) :
              j < k => dispatched[j].event.serial < dispatched[k].event.serial

----------------------------------------------------------------------------
(* Claims about the X11 client *)

\* the refresh timer of the window of the last call, before and after the call
TimerRan == trace.op = "refresh_timer" /\ trace.outcome = "Ok"

\* every window of the map has a refresh interval that is positive
IntervalsPositive == \A w \in DOMAIN client.windows : client.windows[w].refresh_duration > 0

\* the deadline a refresh timer is armed at is not earlier than the time the callback
\* ran at, and earlier than that time plus one interval: it is the first instant, counted in intervals from
\* the deadline before, that is not earlier than now
RearmedAtFirstInstant ==
    TimerRan /\ trace.window \in DOMAIN client.windows =>
        LET t == client.windows[trace.window] IN
        /\ t.deadline >= trace.at
        /\ t.deadline - t.refresh_duration < trace.at

\* C38: mode_refresh_rate gives a positive duration for every display mode and
\* never panics, and the callback of the refresh timer always ends, with the timer
\* armed at the first instant deadline + k * interval that is not before now.
C38_RefreshTimerTerminates ==
    /\ trace.op = "open_window" => trace.outcome = "Ok"
    /\ IntervalsPositive
    /\ trace.op = "refresh_timer" => trace.outcome = "Ok"
    /\ RearmedAtFirstInstant

\* C34: no call of the client on a window is made once the window is marked
\* destroyed, by whichever path: dispatched events, Expose refreshes, refresh timer.
C34_NoCallbackOnDestroyedWindow ==
    \A i \in DOMAIN trace.calls : ~trace.calls[i].destroyed

\* the focus fields and the cursor styles name windows of the map
FocusInMap(c) ==
    /\ c.keyboard_focused_window \in DOMAIN c.windows \cup {NoWindow}
    /\ c.mouse_focused_window \in DOMAIN c.windows \cup {NoWindow}
    /\ DOMAIN c.cursor_styles \subseteq DOMAIN c.windows

\* after drop_window nothing names the window
DropCleared ==
    trace.op = "drop_window" /\ trace.outcome = "Ok" =>
        /\ trace.window \notin DOMAIN client.windows
        /\ client.keyboard_focused_window # trace.window
        /\ client.mouse_focused_window # trace.window
        /\ trace.window \notin DOMAIN client.cursor_styles

\* a drop_window call raises the stop signal when, and only when, it leaves no window
StopWhenEmpty ==
    \A w \in WindowIds :
        trace'.op = "drop_window" /\ drop_window(w) /\ ~client.stopped => (client'.stopped <=> DOMAIN client'.windows = {})

\* C33: whatever windows are opened and dropped and whatever focus, enter and leave
\* events and cursor styles come, the keyboard focus, the mouse focus and every key
\* of cursor_styles name a window of the map or nothing; drop_window clears those
\* that name its window and stops the event loop exactly when no window is left.
C33_FocusNamesLiveWindows ==
    /\ [](FocusInMap(client) /\ DropCleared)
    /\ [][StopWhenEmpty]_vars

\* one of two windows is dropped while the other has the keyboard focus: the event
\* loop runs on
C33_Witness ==
    /\ trace.op = "drop_window"
    /\ trace.window \in WindowIds
    /\ client.keyboard_focused_window \in WindowIds
    /\ ~client.stopped

\* the MouseDown and MouseUp calls of the last handler
CallsOf(made, callback) == {i \in DOMAIN made : made[i].callback = callback}

\* the count a MouseDown at place `position` at time `now` is to carry, given the
\* MouseDown before it
ExpectedCount(down, now, position) ==
    IF down.some /\ now - down.at < DOUBLE_CLICK_INTERVAL
       /\ is_within_click_distance(down.position, position)
    THEN down.count + 1 ELSE 1

\* a button press hands to its window a MouseDown with the count expected
DownCounts ==
    \A e \in Presses :
        trace'.op = "XinputButtonPress" /\ handle_event(e, Quiet) =>
            \A i \in CallsOf(trace'.calls, "MouseDown") :
                trace'.calls[i].arg[1] = ExpectedCount(cell.ghost.down, cell.now, e.position)

\* every MouseDown counts at least one click, every MouseUp carries the count of
\* the MouseDown before it
UpCarriesDown ==
    /\ \A i \in CallsOf(trace.calls, "MouseDown") : trace.calls[i].arg[1] >= 1
    /\ \A i \in CallsOf(trace.calls, "MouseUp") :
           cell.ghost.down.some => trace.calls[i].arg[1] = cell.ghost.down.count

\* C39: a MouseDown carries a click count of at least 1: the count of the MouseDown
\* before it plus one when the press comes within DOUBLE_CLICK_INTERVAL of that one
\* and within click distance of it, and 1 otherwise; a MouseUp carries the count of
\* the most recent MouseDown.
C39_ClickCounts ==
    /\ []UpCarriesDown
    /\ [][DownCounts]_vars

\* a MouseUp after a double click
C39_Witness ==
    /\ trace.op = "XinputButtonRelease"
    /\ CallsOf(trace.calls, "MouseUp") # {}
    /\ cell.ghost.down.some /\ cell.ghost.down.count = 2

\* a baseline is a reading of its axis that came after the last normal XinputLeave
BaselineIsReading ==
    /\ client.scroll_x.some => client.scroll_x.value \in cell.ghost.read_x
    /\ client.scroll_y.some => client.scroll_y.value \in cell.ghost.read_y

\* the ScrollWheel calls of a motion event: each delta is a reading of the axis that
\* came before, after the last normal XinputLeave, minus a reading of that axis
ScrollDeltas ==
    trace'.op = "XinputMotion" =>
        \A i \in CallsOf(trace'.calls, "ScrollWheel") :
            LET call == trace'.calls[i]
                horizontal == call.arg[3] = "HORIZONTAL"
                before == IF horizontal THEN cell.ghost.read_x ELSE cell.ghost.read_y
                after == IF horizontal THEN cell'.ghost.read_x ELSE cell'.ghost.read_y
            IN  \E old \in before, reading \in after : call.arg[1] + call.arg[2] = old - reading

\* the first reading of an axis that a window of the client gets is recorded as the
\* baseline
FirstReadingRecorded ==
    trace'.op = "XinputMotion" /\ HasWindow(client, trace'.window) =>
        /\ cell.ghost.read_x = {} /\ cell'.ghost.read_x # {} => client'.scroll_x.some
        /\ cell.ghost.read_y = {} /\ cell'.ghost.read_y # {} => client'.scroll_y.some

\* C35: after a normal XinputLeave both scroll baselines are empty: the first motion
\* with a scroll valuator on an axis sends no ScrollWheel and records the baseline,
\* and the delta of every ScrollWheel is the difference of two readings of one
\* axis with no normal XinputLeave between them.
C35_ScrollBaselines ==
    /\ []BaselineIsReading
    /\ [][ScrollDeltas /\ FirstReadingRecorded]_vars

\* a motion that scrolls on both axes, after 45 and before 15 on the vertical one
C35_Witness ==
    /\ trace.op = "XinputMotion"
    /\ Cardinality(CallsOf(trace.calls, "ScrollWheel")) = 2
    /\ \E i \in CallsOf(trace.calls, "ScrollWheel") :
           trace.calls[i].arg = <<0, new_scroll(45) - new_scroll(15), "VERTICAL">>

\* the XIM client and its handler are in the state together or not at all
XimPaired == client.ximc = client.xim_handler

\* a call on the client that returns leaves the XIM client and the handler as they were
XimPutBack ==
    cell.created /\ trace'.outcome = "Ok" =>
        client'.ximc = client.ximc /\ client'.xim_handler = client.xim_handler

\* a callback that ran while the XIM client was out of the state and called
\* update_ime_position got its call back
ReentryReturns ==
    \A i \in DOMAIN trace.calls :
        LET call == trace.calls[i] IN
        ~call.ximc /\ ~call.borrowed /\ call.reenter = "update_ime_position" => call.returned

\* C37: between the operations on the input method the XIM client and its handler
\* are both in the state or both out of it; an operation that returns has put back
\* what it took; and update_ime_position called back from a callback that runs
\* while they are taken out returns instead of panicking.
C37_XimTakenAndPutBack ==
    /\ [](XimPaired /\ ReentryReturns)
    /\ [][XimPutBack]_vars

\* a preedit whose callback called update_ime_position while the XIM client was
\* taken out, and that returned with the client put back
C37_Witness ==
    /\ trace.outcome = "Ok"
    /\ client.ximc /\ client.xim_handler
    /\ \E i \in DOMAIN trace.calls :
           /\ trace.calls[i].callback = "handle_ime_preedit"
           /\ ~trace.calls[i].ximc
           /\ trace.calls[i].reenter = "update_ime_position"

\* no runnable runs in the callback of the main channel
NotInChannelCallback ==
    trace.op = "main_receiver" => CallsOf(trace.calls, "runnable") = {}

\* when a runnable runs, the X events that were readable at the poll of the
\* iteration have been handled
EventsFirst ==
    CallsOf(trace.calls, "runnable") # {} => cell.unhandled = 0

\* the runnables that ran were sent, and none ran twice
AtMostOnce ==
    /\ \A i \in DOMAIN cell.ran : cell.ran[i] \in 1..cell.sent
    /\ \A i, j \in DOMAIN cell.ran : cell.ran[i] = cell.ran[j] => i = j

\* a runnable that was sent runs
RunsInTheEnd ==
    \A id \in 1..MaxRunnables : (cell.sent >= id) ~> (id \in Range(cell.ran))

\* C36: a runnable received on the main channel of the X11 client is not run in
\* the callback of the channel but queued as an idle callback, so that it runs after
\* the X events that were pending in that iteration of the loop, and every runnable
\* sent runs once and only once.
C36_RunnablesRunIdle ==
    /\ [](NotInChannelCallback /\ EventsFirst /\ AtMostOnce)
    /\ RunsInTheEnd

\* both runnables have run as idle callbacks
C36_Witness ==
    /\ trace.op = "idle"
    /\ CallsOf(trace.calls, "runnable") # {}
    /\ cell.ran = <<1, 2>>

\* C31: no handler of the X11 client and no callback of the Wayland loop calls a
\* window or runs a runnable while the state of the client is mutably borrowed, so
\* that what is called can call with_common and the like without a double borrow.
C31_NoCallbackWhileBorrowed ==
    \A i \in DOMAIN trace.calls : ~trace.calls[i].borrowed /\ trace.calls[i].returned

\* C32: a call through a weak pointer to a client that is dropped (drop_window and
\* update_ime_position on X11, get_serial on Wayland) returns without doing anything
\* and never panics.
C32_DroppedClientIsNoOp ==
    ~cell.alive /\ trace.op \in {"drop_window", "update_ime_position", "get_serial"}
        => trace.outcome = "Ok"

====
